---- MODULE Spec2Model ----
(***************************************************************************)
(* Recording subsystem of the Schmer screen-recorder extension.            *)
(*                                                                         *)
(*   Coordinator      the MV3 service worker       (src/unnamed/part_003)  *)
(*   Capture Surface  the offscreen document                               *)
(*                    (src/screen-recorder-v1.0.0/offscreen.js)            *)
(*   Bridge           the content script, seen here as the sender of       *)
(*                    SCHMER_* actions and the receiver of                 *)
(*                    chrome.tabs.sendMessage        (src/unnamed/part_002)*)
(*                                                                         *)
(* Every handler of the service worker is an async function.  It is cut    *)
(* at the awaits that give the event loop back (chrome.storage, the 500 ms *)
(* connect delay, chrome.tabs.create, fetch, tabs.sendMessage); the code   *)
(* between two such awaits runs to completion and is one action.  A        *)
(* suspended handler is a record of `tasks`.                               *)
(***************************************************************************)
EXTENDS Integers, Sequences, FiniteSets, TLC

\* ------------------------------------------------------------------ bounds
MaxTasks   == 1   \* handlers of the service worker suspended at an await
MaxQueue   == 2   \* messages in flight on the port, per direction
MaxChunks  == 2   \* segments buffered by the surface
MaxSeg     == 2   \* largest segment size (bytes), 0 is the empty segment
MaxDocs    == 1   \* offscreen documents created in one run
MaxClock   == 2   \* readings of Date.now() by handleStartRecording
NumPages   == 2   \* dashboard pages (tabs running the content script)
MaxNewTabs == 1   \* tabs opened by chrome.tabs.create
StopCap    == 2   \* the count of stops posted saturates here
MaxWaiting == 2   \* the count of suspended stopRecording calls saturates here
MaxSent    == 2   \* messages the recorder sent that wait to be taken
MaxAttempts == 2  \* the count of START_RECORDING posted saturates here
MaxReady   == 3   \* artifacts the dashboard page is given
MaxCallers == 3   \* commands that call connectToOffscreen at the same time
MaxNow         == 3  \* Date.now() of the recorder goes from 1 to MaxNow
MaxAudioTracks == 2  \* audio tracks of a display stream
MaxPending     == 2  \* startRecording calls of the content script suspended in getDisplayMedia
MaxLive        == 2  \* MediaRecorders of the content script recording at the same time

Null  == "null"
NoTab == 0

PageTabs == 1..NumPages
NewTabs  == (NumPages + 1)..(NumPages + MaxNewTabs)

Min(a, b) == IF a < b THEN a ELSE b

RECURSIVE SumSeq(_)
SumSeq(s) == IF s = <<>> THEN 0 ELSE Head(s) + SumSeq(Tail(s))

\* ---------------------------------------------------------------- messages
\* The payload of a page's SCHMER_START_RECORDING, as the content script
\* forwards it.  "" stands for an absent (falsy) field.
StartMsgs ==
  { [projectId |-> "P1", tool |-> "Arduino", userId |-> "U1", userName |-> "N1",
     toolUrl |-> "https://tool", openInExtension |-> "unset", displayMode |-> "",
     includeAudio |-> "unset"],
    [projectId |-> "", tool |-> "Proteus", userId |-> "", userName |-> "N2",
     toolUrl |-> "", openInExtension |-> "unset", displayMode |-> "",
     includeAudio |-> "false"],
    [projectId |-> "P1", tool |-> "Arduino", userId |-> "U1", userName |-> "N1",
     toolUrl |-> "https://tool", openInExtension |-> "false", displayMode |-> "",
     includeAudio |-> "unset"] }

\* The options of the popup's START_RECORDING
PopupCfgs == { [displayMode |-> "tab", includeAudio |-> TRUE] }

NoCfg == [displayMode |-> "", includeAudio |-> FALSE]

\* x || null
OrNull(x) == IF x = "" THEN Null ELSE x

WebTools     == {"Arduino", "AutoCAD", "VS Code", "MATLAB", "GitHub"}
DesktopTools == {"Proteus", "SolidWorks"}

\* startMsg.displayMode, then the fallback taken because targetTabId is null
StartDisplayMode(m) ==
  LET mode == IF m.tool \in WebTools THEN "tab"
              ELSE IF m.tool \in DesktopTools THEN "window"
              ELSE IF m.displayMode # "" THEN m.displayMode ELSE "screen"
  IN IF mode = "tab" THEN "screen" ELSE mode

\* const startMsg = { displayMode, includeAudio, includeMicrophone: false, targetTabId: null }
StartCfg(m) == [displayMode |-> StartDisplayMode(m), includeAudio |-> (m.includeAudio # "false")]

\* A message on the port: data is the text of a STATUS_UPDATE or ERROR, cfg is
\* START_RECORDING's data, size the byte length of the blob behind
\* RECORDING_STOPPED's blobUrl.
PortMsg(type, data, cfg, size) == [type |-> type, data |-> data, cfg |-> cfg, size |-> size]
Plain(type) == PortMsg(type, "", NoCfg, 0)

\* ------------------------------------------------------------------- state
VARIABLES
  \* --- service worker
  recordingState,      \* chrome.storage.local recordingState
  recordingStartTime,  \* chrome.storage.local recordingStartTime (0 = null)
  schmerSession,       \* the module-level session object
  offscreenPort,       \* 0 = null, else the generation of the document it reaches
  tasks,               \* suspended handlers
  clock,               \* Date.now()
  \* --- offscreen document
  offscreenDoc,        \* an OFFSCREEN_DOCUMENT context exists
  docGen,              \* documents created so far
  port,                \* the surface's port: connected to the service worker
  mediaRecorder,       \* "null", or the state of the current MediaRecorder
  recordedChunks,      \* sizes of the buffered segments
  currentStream,       \* "null", or "live" / "ended": the captured display track
  acquiring,           \* configs of the startRecording calls suspended in getDisplayMedia
  stopping,            \* a stopRecording call waits for onstop
  orphans,             \* recorders no variable refers to any more, still recording
  \* --- channels
  swToOff,             \* port messages service worker -> offscreen
  offToSw,             \* port messages offscreen -> service worker
  \* --- environment
  openTabs,            \* tabs that exist
  tabsCreated,         \* tabs opened by chrome.tabs.create so far
  \* --- the offscreen recorder that saves the file itself (part_002)
  recorder,            \* its variables, as a record
  \* --- the dashboard page (useExtensionBridge)
  dashboard,           \* the handling of SCHMER_RECORDING_READY, as a record
  \* --- concurrent callers of connectToOffscreen (part_003), seen port by port
  callers,             \* the callers and the ports, as a record
  \* --- the set-up of the encoder (offscreen.js and part_002), input by input
  setup,               \* the inputs and what was made of them, as a record
  \* --- the recorder of the content script (part_006, part_007)
  content,             \* its variables and what it posted to the page, as a record
  \* --- history
  hist

swVars   == <<recordingState, recordingStartTime, schmerSession, offscreenPort, tasks, clock>>
surfVars == <<offscreenDoc, docGen, port, mediaRecorder, recordedChunks, currentStream,
              acquiring, stopping, orphans>>
chanVars == <<swToOff, offToSw>>
envVars  == <<openTabs, tabsCreated, recorder, dashboard, callers, setup, content>>
vars     == <<swVars, surfVars, chanVars, envVars, hist>>

\* ------------------------------------------------------------------- tasks
NoTask == [pc |-> "idle", port |-> 0, sender |-> NoTab, cfg |-> NoCfg,
           toolUrl |-> "", openInExt |-> "unset", st |-> Null, visible |-> FALSE,
           tab |-> NoTab, size |-> 0, log |-> <<>>]

\* the task table with r in slot i
Put(i, r) == [tasks EXCEPT ![i] = r]

\* a handler may be suspended only while the task table has room
HasSlot == Len(tasks) < MaxTasks

\* the task table with the new task r
Spawn(r) == Append(tasks, r)

\* the task table without task i, which has run to its end
Done(i) == SubSeq(tasks, 1, i - 1) \o SubSeq(tasks, i + 1, Len(tasks))

Quiet == tasks = <<>>

\* const schmerSession = {...}
SessionInit ==
  [active |-> FALSE, tabId |-> NoTab, projectId |-> Null, tool |-> Null,
   userId |-> Null, userName |-> Null, autoPaused |-> FALSE, toolTabId |-> NoTab,
   expectedToolUrl |-> Null]

\* -------------------------------------------------------------- history
\* The transition table of the Coordinator's state machine (spec 4.2); an
\* event whose precondition does not hold leaves the state as it is.
TableStep(s, e) ==
  CASE s = "Idle"      /\ e = "start"    -> "Starting"
    [] s = "Starting"  /\ e = "began"    -> "Recording"
    [] s = "Starting"  /\ e = "failure"  -> "Idle"
    [] s = "Recording" /\ e = "pause"    -> "Paused"
    [] s = "Paused"    /\ e = "resume"   -> "Recording"
    [] s \in {"Recording", "Paused"} /\ e = "stop" -> "Stopping"
    [] s = "Stopping"  /\ e = "artifact" -> "Idle"
    [] OTHER -> s

\* no SCHMER_PONG was posted yet
NoPong == [detected |-> FALSE, version |-> Null]

\* hist records, for the properties below, what the program itself does not
\* keep.  Only the part named by hist.track is recorded in a run:
\*   "table"      table      the state the table reaches on the events so far
\*   "stops"      stops      STOP_RECORDING messages posted since the session began
\*                boundTab   the tab opened for the session
\*                closedIn   recordingState when that tab was closed
\*   "initiator"  initiator  the page whose start began the session
\*                bytes      the sizes of the segments the recorder gave, summed
\*   "segments"   bytes      the sizes of the segments the recorder the variable
\*                           mediaRecorder holds gave since it was constructed
\*   "pause"      pausedBy   what wrote 'paused' over another state the last
\*                           time: "explicit" (PAUSE_RECORDING) or "visibility"
\*   "pages"      attempts   how many START_RECORDING were posted to the surface
\*                told       the page whose content script posted
\*                           SCHMER_RECORDING_STARTED to it, or NoTab
\*                began      STATUS_UPDATE 'Recording started' reached the
\*                           Coordinator
\*                failed     an ERROR of the surface reached the Coordinator
\*   "origin"     ended      no session of a page is under way: none was
\*                           started, or the last one ended by its artifact's
\*                           handler or by an ERROR answering its start
\*                origin     "received" when the popup's start arrived while
\*                           ended, "popup" once its START_RECORDING was
\*                           posted; Null again when a page sends a start
\*                lastPosted whose START_RECORDING was posted last
\*   "waiters"    waiting    the calls of stopRecording suspended at their
\*                           await since the encoder was constructed
\*   "elapsed"    the report of the recorder that saves the file: the
\*                elapsedMs its onstop sent and the time its encoder recorded
\*   "files"      the report of the same recorder: whether the chunks its
\*                onstop found were the segments its encoder gave
\*   "binding"    declared   the start that began the session named a tool URL
\*                timer      the tool URL of the 800 ms timer that is set and
\*                           has not fired
\*                matching   the open tabs whose URL starts with ToolUrl
\*   "probe"      pong       the SCHMER_PONG the page was given last
\*                probedIn   the persisted states in which a handshake was
\*                           answered
\*                probedBusy a handshake was answered while a handler of a
\*                           start or of a stop was suspended
\*   "order"      last       the last start or stop command the Coordinator
\*                           received: "start", "stop", or Null
\*                lastPosted the last of START_RECORDING and STOP_RECORDING
\*                           posted to the surface, or Null
NoneTaken == [cmd |-> Null, before |-> Null, flip |-> FALSE]

HistInit(track) ==
  [track |-> track, table |-> "Idle", stops |-> 0, initiator |-> NoTab,
   boundTab |-> NoTab, closedIn |-> Null, pausedBy |-> Null, bytes |-> 0,
   attempts |-> 0, told |-> NoTab, began |-> FALSE, failed |-> FALSE,
   last |-> Null, lastPosted |-> Null,
   pong |-> NoPong, probedIn |-> {}, probedBusy |-> FALSE, taken |-> NoneTaken,
   origin |-> Null, ended |-> TRUE, waiting |-> 0,
   declared |-> FALSE, timer |-> Null, matching |-> {}]

\* hist after the event e reached the Coordinator
Ev(h, e) ==
  CASE h.track = "table" -> [h EXCEPT !.table = TableStep(@, e)]
    [] h.track = "pages" /\ e = "began" -> [h EXCEPT !.began = TRUE]
    [] h.track = "pages" /\ e = "failure" -> [h EXCEPT !.failed = TRUE]
    [] h.track = "order" /\ e \in {"start", "stop"} -> [h EXCEPT !.last = e]
    [] h.track = "origin" /\ e = "failure" ->
         [h EXCEPT !.ended = IF h.lastPosted = "page" THEN TRUE ELSE @]
    [] OTHER -> h

\* hist after the recorder gave a segment of size bytes
Segment(h, size) ==
  IF h.track \in {"initiator", "segments"} THEN [h EXCEPT !.bytes = @ + size] ELSE h

\* hist after a recorder was constructed and started
HistRecorder(h) ==
  CASE h.track = "segments" -> [h EXCEPT !.bytes = 0]
    [] h.track = "waiters" -> [h EXCEPT !.waiting = 0]
    [] OTHER -> h

\* hist after a call of stopRecording set onstop to its promise's resolve and
\* was suspended
HistAwaits(h) ==
  IF h.track = "waiters"
    THEN [h EXCEPT !.waiting = IF @ < MaxWaiting THEN @ + 1 ELSE @]
    ELSE h

\* hist after the stop event called onstop: the call whose resolve it holds
\* goes on to its end
HistResumed(h) ==
  IF h.track = "waiters" /\ h.waiting > 0 THEN [h EXCEPT !.waiting = @ - 1] ELSE h

\* hist after a surface took the command cmd with its encoder in the state
\* before; flip tells two equal commands in a row apart
Taken(h, cmd, before) ==
  IF h.track \in {"offscreen.js", "part_002"}
    THEN [h EXCEPT !.taken = [cmd |-> cmd, before |-> before, flip |-> ~@.flip]]
    ELSE h

\* hist after recordingState: 'paused' is written for cause
PausedBy(h, cause) ==
  IF h.track = "pause" /\ recordingState # "paused" THEN [h EXCEPT !.pausedBy = cause] ELSE h

\* ----------------------------------------- the recorder that saves the file
\* The module variables of the offscreen recorder of part_002, which takes
\* its commands by chrome.runtime.onMessage, reports by sendState/sendError and
\* downloads the file itself.  Besides them the record holds
\*   start     where startRecording is suspended: "display" (getDisplayMedia),
\*             "mic" (getUserMedia), or "idle"
\*   options   the options of that call
\*   stopEvent the stop event of a recorder is queued
\*   onstop    "download" while onstop awaits triggerDownload, else "idle"
\*   handles   the device handles acquired and not released: the display
\*             stream's tracks, the microphone's tracks, the AudioContext
\*   sent      the messages sent and not yet taken
\*   now       what Date.now() gives
\*   recorded  the time the encoder in use has been recording
\*   stopped   the same of the encoder whose stop event is queued
\*   owed      the bytes the encoder whose stop event is queued had given
\*             when it was stopped
\*   report    the elapsedMs the last onstop sent, with the time its encoder
\*             had been recording, and whether the chunks it found were the
\*             segments its encoder gave, all of them and no other
\* A time variable that is null holds NoTime: the code tests these variables
\* for truth and subtracts them, and null and 0 behave alike in both.
NoTime == 0

NoReport == [sent |-> FALSE, elapsedMs |-> 0, recorded |-> 0, whole |-> TRUE]

NoOptions == [useMic |-> FALSE, systemAudio |-> FALSE]

\* ----------------------------------- concurrent callers of connectToOffscreen
\* Commands whose handlers call connectToOffscreen while none has a port yet,
\* with every port chrome.runtime.connect opens told apart:
\*   pc            where each caller is: "idle", "contexts" (await getContexts),
\*                 "create" (await createDocument), "delay" (the 500 ms),
\*                 "post" (port.postMessage is next), "done"
\*   port          the port connectToOffscreen returned to each caller (0: none)
\*   documents     offscreen documents that exist
\*   opened        the ports opened and not closed
\*   offscreenPort the Coordinator's variable (0: null)
\*   surfacePort   the variable port of the document (0: null)
\*   forwarded     the callers whose command was posted, with the port
Callers == 1..MaxCallers

CallersInit ==
  [pc |-> [c \in Callers |-> "idle"], port |-> [c \in Callers |-> 0],
   documents |-> 0, opened |-> {}, offscreenPort |-> 0, surfacePort |-> 0,
   forwarded |-> {}]

\* ------------------------------------------------- the set-up of the encoder
\* no stream combined, no encoder constructed
NoStream == [video |-> 0, audio |-> 0, mixed |-> {}]
NoEncoder == [mimeType |-> "", active |-> FALSE, error |-> Null]

\* What one start makes of the streams it acquired and of the codecs the host
\* supports:
\*   impl    whose code runs: "offscreen.js" or "part_002"
\*   pc      "idle", "combined" (the stream for the encoder is there), "done"
\*   in      what was acquired (see StreamInputs)
\*   stream  the stream handed to the encoder: its video and audio tracks, and
\*           the sources connected to the mixing destination
\*   host    the types MediaRecorder.isTypeSupported accepts, and whether the
\*           constructor works without a type
\*   encoder the type asked for, whether a recorder is active, the error sent
SetupInit ==
  [impl |-> Null, pc |-> "idle",
   in |-> [systemAudio |-> FALSE, displayAudioTracks |-> 0, mic |-> FALSE],
   stream |-> NoStream,
   host |-> [supported |-> {}, default |-> FALSE],
   encoder |-> NoEncoder]

\* ------------------------------------------------------ the dashboard page
\* What the handler of SCHMER_RECORDING_READY did with an artifact:
\*   uploaded    a storage (Supabase or the backend) took the upload
\*   stored      saveLocalRecording kept it in the page's local store
\*   downloaded  a browser download was triggered (a.click())
\*   posted      the messages posted to the window
NoOutcome == [uploaded |-> FALSE, stored |-> FALSE, downloaded |-> FALSE, posted |-> {}]

\* The page's handling of SCHMER_RECORDING_READY:
\*   hook     which definition of handleExtensionMessage the page runs
\*   pc       "idle", "fetch" (await fetch(blobUrl)) or "upload" (the uploads)
\*   handled  artifacts whose handling ran to its end with a blob in hand
\*   outcome  what the last of them came to
DashboardInit == [hook |-> Null, pc |-> "idle", handled |-> 0, outcome |-> NoOutcome]

RecorderInit ==
  [displayStream |-> "null", micStream |-> "null", mixedStream |-> "null",
   mediaRecorder |-> "null", audioContext |-> FALSE, chunks |-> <<>>,
   stopping |-> FALSE, lastStopReason |-> "stop-requested",
   start |-> "idle", options |-> NoOptions, stopEvent |-> FALSE, onstop |-> "idle",
   handles |-> {}, sent |-> <<>>,
   startedAt |-> NoTime, pausedAt |-> NoTime, runningStart |-> NoTime, elapsedMs |-> 0,
   now |-> 1, recorded |-> 0, stopped |-> 0, owed |-> 0, report |-> NoReport]

\* ------------------------------------------------------------------- init
\* chrome.runtime.onInstalled / onStartup: the storage is reset; no offscreen
\* document exists, no handler is running.
SurfaceFresh ==
  /\ port' = FALSE
  /\ mediaRecorder' = "null"
  /\ recordedChunks' = <<>>
  /\ currentStream' = "null"
  /\ acquiring' = <<>>
  /\ stopping' = FALSE
  /\ orphans' = 0

\* ------------------------------------- the recorder of the content script
\* The variables of the content script: capturing, mediaRecorder (its state,
\* or "null") and chunks (the count of buffered segments); with them
\*   pending     startRecording calls suspended in getDisplayMedia
\*   streams     capture streams whose tracks are live
\*   orphans     MediaRecorders no variable refers to any more, recording
\*   stopEvents  stop events of stopped MediaRecorders not yet dispatched
\*   out         the messages posted to the page and not yet taken by it
\*   last        the last command of the page that was handled
ContentInit ==
  [capturing |-> FALSE, mediaRecorder |-> Null, chunks |-> 0, pending |-> 0,
   streams |-> 0, orphans |-> 0, stopEvents |-> 0, out |-> <<>>, last |-> "none"]

InitWith(track, pages, now) ==
  /\ recordingState = "stopped"
  /\ recordingStartTime = 0
  /\ schmerSession = SessionInit
  /\ offscreenPort = 0
  /\ tasks = <<>>
  /\ clock = now
  /\ offscreenDoc = FALSE
  /\ docGen = 0
  /\ port = FALSE
  /\ mediaRecorder = "null"
  /\ recordedChunks = <<>>
  /\ currentStream = "null"
  /\ acquiring = <<>>
  /\ stopping = FALSE
  /\ orphans = 0
  /\ swToOff = <<>>
  /\ offToSw = <<>>
  /\ openTabs = pages
  /\ tabsCreated = 0
  /\ recorder = RecorderInit
  /\ dashboard = DashboardInit
  /\ callers = CallersInit
  /\ setup = SetupInit
  /\ content = ContentInit
  /\ hist = HistInit(track)

\* one dashboard page is open
Init == InitWith("none", {1}, 0)

\* --------------------------------------------- offscreen document lifecycle
\* ensureOffscreenExists(): getContexts, and createDocument when there is none
CanEnsure == offscreenDoc \/ docGen < MaxDocs

ensureOffscreenExists ==
  IF offscreenDoc
    THEN UNCHANGED <<surfVars, chanVars>>
    ELSE /\ offscreenDoc' = TRUE
         /\ docGen' = docGen + 1
         /\ SurfaceFresh
         /\ UNCHANGED chanVars

\* The port a handler holds is usable while the document it reached exists.
PortAlive(p) == p # 0 /\ offscreenDoc /\ p = docGen

\* hist after START_RECORDING was posted on port p and {success: true} was
\* returned to the caller; the content script of page (NoTab for the popup)
\* answers a successful response with SCHMER_RECORDING_STARTED
HistPosted(h, p, page) ==
  CASE h.track = "pages" /\ PortAlive(p) ->
         [h EXCEPT !.attempts = IF @ < MaxAttempts THEN @ + 1 ELSE @,
                   !.told = IF page # NoTab THEN page ELSE @]
    [] h.track = "order" /\ PortAlive(p) -> [h EXCEPT !.lastPosted = "START_RECORDING"]
    [] h.track = "origin" /\ PortAlive(p) ->
         [h EXCEPT !.origin = IF page = NoTab /\ h.origin = "received" THEN "popup" ELSE Null,
                   !.lastPosted = IF page = NoTab THEN "popup" ELSE "page"]
    [] OTHER -> h

\* connectToOffscreen() after its 500 ms delay: chrome.runtime.connect.  With no
\* document left to answer, the port disconnects at once.
ConnectedPort == IF offscreenDoc THEN docGen ELSE 0

CanPost(p) == PortAlive(p) => Len(swToOff) < MaxQueue

\* connectToOffscreen() past the delay: offscreenPort = chrome.runtime.connect(...),
\* and the document's onConnect takes the port
connectToOffscreen ==
  /\ offscreenPort' = ConnectedPort
  /\ port' = (port \/ offscreenDoc)
  /\ UNCHANGED <<offscreenDoc, docGen, mediaRecorder, recordedChunks, currentStream,
                 acquiring, stopping, orphans>>

\* port.postMessage(m) by a handler holding port p; on a disconnected port it throws
Posted(p, m) == IF PortAlive(p) THEN Append(swToOff, m) ELSE swToOff

\* ------------------------------------------------- handleStartRecording
\* storage.set({recordingState: 'recording', recordingStartTime: Date.now()})
StartSet ==
  /\ clock' = clock + 1
  /\ recordingState' = "recording"
  /\ recordingStartTime' = clock + 1

StartMessage(cfg) == PortMsg("START_RECORDING", "", cfg, 0)

\* hist after a STOP_RECORDING went out on port p
HistStopPosted(h, p) ==
  CASE PortAlive(p) /\ h.track = "stops" -> [h EXCEPT !.stops = Min(@ + 1, StopCap)]
    [] PortAlive(p) /\ h.track = "order" -> [h EXCEPT !.lastPosted = "STOP_RECORDING"]
    [] OTHER -> h

\* hist after the popup's start reached the Coordinator
HistPopupStart(h) ==
  IF h.track = "origin"
    THEN [h EXCEPT !.origin = IF h.ended THEN "received" ELSE Null]
    ELSE h

\* START_RECORDING from the popup: handleStartRecording(message) up to its
\* first await that yields
PopupStartRecording ==
  \E cfg \in PopupCfgs :
    /\ HasSlot
    /\ clock < MaxClock
    /\ hist' = HistPopupStart(Ev(hist, "start"))
    /\ \/ /\ offscreenPort # 0
          /\ StartSet
          /\ tasks' = Spawn([NoTask EXCEPT !.pc = "pstart_post",
                                           !.port = offscreenPort, !.cfg = cfg])
          /\ UNCHANGED <<schmerSession, offscreenPort, surfVars, chanVars, envVars>>
       \/ /\ offscreenPort = 0
          /\ CanEnsure
          /\ ensureOffscreenExists
          /\ tasks' = Spawn([NoTask EXCEPT !.pc = "pstart_wait", !.cfg = cfg])
          /\ UNCHANGED <<recordingState, recordingStartTime, schmerSession, offscreenPort,
                         clock, envVars>>

PopupStartConnected(i) ==
  /\ tasks[i].pc = "pstart_wait"
  /\ connectToOffscreen
  /\ StartSet
  /\ tasks' = Put(i, [tasks[i] EXCEPT !.pc = "pstart_post", !.port = ConnectedPort])
  /\ UNCHANGED <<schmerSession, chanVars, envVars, hist>>

\* port.postMessage({type: 'START_RECORDING', ...}); return {success: true}
PopupStartPost(i) ==
  /\ tasks[i].pc = "pstart_post"
  /\ CanPost(tasks[i].port)
  /\ swToOff' = Posted(tasks[i].port, StartMessage(tasks[i].cfg))
  /\ tasks' = Done(i)
  /\ hist' = HistPosted(hist, tasks[i].port, NoTab)
  /\ UNCHANGED <<recordingState, recordingStartTime, schmerSession, offscreenPort, clock,
                 surfVars, offToSw, envVars>>

\* ------------------------------------------------- handlePauseRecording
PauseRecording ==
  /\ HasSlot
  /\ \/ /\ offscreenPort # 0
        /\ recordingState' = "paused"
        /\ hist' = PausedBy(Ev(hist, "pause"), "explicit")
        /\ tasks' = Spawn([NoTask EXCEPT !.pc = "pause_post", !.port = offscreenPort])
        /\ UNCHANGED <<recordingStartTime, schmerSession, offscreenPort, clock,
                       surfVars, chanVars, envVars>>
     \/ /\ offscreenPort = 0
        /\ CanEnsure
        /\ ensureOffscreenExists
        /\ tasks' = Spawn([NoTask EXCEPT !.pc = "pause_wait"])
        /\ hist' = Ev(hist, "pause")
        /\ UNCHANGED <<recordingState, recordingStartTime, schmerSession, offscreenPort,
                       clock, envVars>>

\* handlePauseRecording() past the connect, called for the popup or for a page
\* that became visible
PauseConnected(i) ==
  /\ tasks[i].pc \in {"pause_wait", "vis_pause_wait"}
  /\ connectToOffscreen
  /\ recordingState' = "paused"
  /\ tasks' = Put(i, [tasks[i] EXCEPT
                        !.pc = IF @ = "pause_wait" THEN "pause_post" ELSE "vis_pause_post",
                        !.port = ConnectedPort])
  /\ hist' = PausedBy(hist, IF tasks[i].pc = "pause_wait" THEN "explicit" ELSE "visibility")
  /\ UNCHANGED <<recordingStartTime, schmerSession, clock, chanVars, envVars>>

PausePost(i) ==
  /\ tasks[i].pc = "pause_post"
  /\ CanPost(tasks[i].port)
  /\ swToOff' = Posted(tasks[i].port, Plain("PAUSE_RECORDING"))
  /\ tasks' = Done(i)
  /\ UNCHANGED <<recordingState, recordingStartTime, schmerSession, offscreenPort, clock,
                 surfVars, offToSw, envVars, hist>>

\* ------------------------------------------------ handleResumeRecording
ResumeRecording ==
  /\ HasSlot
  /\ hist' = Ev(hist, "resume")
  /\ \/ /\ offscreenPort # 0
        /\ recordingState' = "recording"
        /\ tasks' = Spawn([NoTask EXCEPT !.pc = "resume_post", !.port = offscreenPort])
        /\ UNCHANGED <<recordingStartTime, schmerSession, offscreenPort, clock,
                       surfVars, chanVars, envVars>>
     \/ /\ offscreenPort = 0
        /\ CanEnsure
        /\ ensureOffscreenExists
        /\ tasks' = Spawn([NoTask EXCEPT !.pc = "resume_wait"])
        /\ UNCHANGED <<recordingState, recordingStartTime, schmerSession, offscreenPort,
                       clock, envVars>>

\* handleResumeRecording() past the connect, called for the popup or for a page
\* that became hidden
ResumeConnected(i) ==
  /\ tasks[i].pc \in {"resume_wait", "vis_resume_wait"}
  /\ connectToOffscreen
  /\ recordingState' = "recording"
  /\ tasks' = Put(i, [tasks[i] EXCEPT
                        !.pc = IF @ = "resume_wait" THEN "resume_post" ELSE "vis_resume_post",
                        !.port = ConnectedPort])
  /\ UNCHANGED <<recordingStartTime, schmerSession, clock, chanVars, envVars, hist>>

ResumePost(i) ==
  /\ tasks[i].pc = "resume_post"
  /\ CanPost(tasks[i].port)
  /\ swToOff' = Posted(tasks[i].port, Plain("RESUME_RECORDING"))
  /\ tasks' = Done(i)
  /\ UNCHANGED <<recordingState, recordingStartTime, schmerSession, offscreenPort, clock,
                 surfVars, offToSw, envVars, hist>>

\* -------------------------------------------------- handleStopRecording
\* Past the connect: port.postMessage({type: 'STOP_RECORDING'}), then
\* storage.set({recordingState: 'stopped'}).  What follows that await changes
\* nothing but the response, which is given here.
StopNow(p) ==
  /\ swToOff' = Posted(p, Plain("STOP_RECORDING"))
  /\ recordingState' = "stopped"

\* STOP_RECORDING from the popup, SCHMER_STOP_RECORDING from a page
StopRecording ==
  \E action \in {"STOP_RECORDING", "SCHMER_STOP_RECORDING"} :
    \/ /\ offscreenPort # 0
       /\ Len(swToOff) < MaxQueue
       /\ StopNow(offscreenPort)
       /\ hist' = HistStopPosted(Ev(hist, "stop"), offscreenPort)
       /\ UNCHANGED <<recordingStartTime, schmerSession, offscreenPort, tasks, clock,
                      surfVars, offToSw, envVars>>
    \/ /\ offscreenPort = 0
       /\ HasSlot
       /\ CanEnsure
       /\ ensureOffscreenExists
       /\ tasks' = Spawn([NoTask EXCEPT !.pc = "stop_wait", !.st = action])
       /\ hist' = Ev(hist, "stop")
       /\ UNCHANGED <<recordingState, recordingStartTime, schmerSession, offscreenPort,
                      clock, envVars>>

\* handleStopRecording() past the connect, called for the popup, for a page, or
\* for the closed tool tab
StopConnected(i) ==
  /\ tasks[i].pc \in {"stop_wait", "tabstop_wait"}
  /\ CanPost(ConnectedPort)
  /\ connectToOffscreen
  /\ StopNow(ConnectedPort)
  /\ hist' = HistStopPosted(hist, ConnectedPort)
  /\ tasks' = Done(i)
  /\ UNCHANGED <<recordingStartTime, schmerSession, clock, offToSw, envVars>>

\* ---------------------------------------------- SCHMER_START_RECORDING
\* The synchronous head of the handler: the session object is written from
\* the message and its sender, startMsg is built, and the persisted state is
\* asked for (chrome.storage.local.get).
SessionFromStart(sess, sender, m) ==
  [sess EXCEPT !.tabId = sender,
               !.active = TRUE,
               !.projectId = OrNull(m.projectId),
               !.tool = OrNull(m.tool),
               !.userId = OrNull(m.userId),
               !.userName = OrNull(m.userName),
               !.autoPaused = FALSE,
               !.toolTabId = NoTab]

\* hist after a page's start reached the Coordinator
HistPageStart(h) ==
  IF h.track = "origin" THEN [h EXCEPT !.ended = FALSE, !.origin = Null] ELSE h

\* if ((st.recordingState || 'stopped') === 'recording')
AlreadyRecording(st) == st = "recording"

SchmerStartRecording ==
  \E sender \in PageTabs \cap openTabs, m \in StartMsgs :
    /\ HasSlot
    /\ AlreadyRecording(recordingState) \/ clock < MaxClock
    /\ schmerSession' = SessionFromStart(schmerSession, sender, m)
    /\ tasks' = Spawn([NoTask EXCEPT !.pc = "sstart_guard", !.sender = sender,
                                     !.cfg = StartCfg(m), !.toolUrl = m.toolUrl,
                                     !.openInExt = m.openInExtension,
                                     !.st = recordingState])
    /\ hist' = HistPageStart(Ev(hist, "start"))
    /\ UNCHANGED <<recordingState, recordingStartTime, offscreenPort, clock,
                   surfVars, chanVars, envVars>>

\* hist after the start of page sender passed the guard, with tab bound to it
HistStarted(sender, tab) ==
  CASE hist.track = "initiator" -> [hist EXCEPT !.initiator = sender]
    [] hist.track = "stops" -> [hist EXCEPT !.boundTab = tab, !.closedIn = Null,
                                            !.stops = 0]
    [] OTHER -> hist

\* the same, with what the start of task said of the tool: a page that opened
\* the tool itself has the 800 ms timer set; a tab the Coordinator created is
\* at the tool URL
HistBinding(h, task) ==
  IF h.track = "binding"
    THEN [h EXCEPT !.declared = task.toolUrl # "",
                   !.timer = IF task.toolUrl # "" /\ task.openInExt = "false"
                               THEN task.toolUrl ELSE @,
                   !.matching = IF task.tab # NoTab THEN @ \cup {task.tab} ELSE @]
    ELSE h

\* handleStartRecording called by the SCHMER handler of task i, whose session
\* object is by now sess
SchmerStartCall(i, sess) ==
  /\ schmerSession' = sess
  /\ hist' = HistBinding(HistStarted(tasks[i].sender, sess.toolTabId), tasks[i])
  /\ \/ /\ offscreenPort # 0
        /\ StartSet
        /\ tasks' = Put(i, [tasks[i] EXCEPT !.pc = "sstart_post", !.port = offscreenPort])
        /\ UNCHANGED <<offscreenPort, surfVars, chanVars>>
     \/ /\ offscreenPort = 0
        /\ CanEnsure
        /\ ensureOffscreenExists
        /\ tasks' = Put(i, [tasks[i] EXCEPT !.pc = "sstart_wait"])
        /\ UNCHANGED <<recordingState, recordingStartTime, offscreenPort, clock>>

\* The double-start guard, then the tool tab: opened here (chrome.tabs.create),
\* or left to be discovered (expectedToolUrl), or none.
SchmerStartGuard(i) ==
  /\ tasks[i].pc = "sstart_guard"
  /\ \/ /\ AlreadyRecording(tasks[i].st)
        /\ tasks' = Done(i)
        /\ UNCHANGED <<recordingState, recordingStartTime, schmerSession, offscreenPort,
                       clock, surfVars, chanVars, envVars, hist>>
     \/ /\ ~AlreadyRecording(tasks[i].st)
        /\ tasks[i].toolUrl # "" /\ tasks[i].openInExt # "false"
        /\ IF tabsCreated < MaxNewTabs
             THEN /\ tabsCreated' = tabsCreated + 1
                  /\ openTabs' = openTabs \cup {NumPages + tabsCreated + 1}
                  /\ UNCHANGED <<recorder, dashboard, callers, setup, content>>
                  /\ tasks' = Put(i, [tasks[i] EXCEPT !.pc = "sstart_created",
                                                      !.tab = NumPages + tabsCreated + 1])
             ELSE /\ tasks' = Put(i, [tasks[i] EXCEPT !.pc = "sstart_created"])
                  /\ UNCHANGED envVars
        /\ UNCHANGED <<recordingState, recordingStartTime, schmerSession, offscreenPort,
                       clock, surfVars, chanVars, hist>>
     \/ /\ ~AlreadyRecording(tasks[i].st)
        /\ tasks[i].toolUrl # "" /\ tasks[i].openInExt = "false"
        /\ SchmerStartCall(i, [schmerSession EXCEPT !.expectedToolUrl = tasks[i].toolUrl])
        /\ UNCHANGED <<envVars>>
     \/ /\ ~AlreadyRecording(tasks[i].st)
        /\ tasks[i].toolUrl = ""
        /\ SchmerStartCall(i, schmerSession)
        /\ UNCHANGED <<envVars>>

\* chrome.tabs.create has answered: schmerSession.toolTabId = createdTab.id
SchmerStartCreated(i) ==
  /\ tasks[i].pc = "sstart_created"
  /\ SchmerStartCall(i, IF tasks[i].tab # NoTab
                          THEN [schmerSession EXCEPT !.toolTabId = tasks[i].tab]
                          ELSE schmerSession)
  /\ UNCHANGED <<envVars>>

SchmerStartConnected(i) ==
  /\ tasks[i].pc = "sstart_wait"
  /\ connectToOffscreen
  /\ StartSet
  /\ tasks' = Put(i, [tasks[i] EXCEPT !.pc = "sstart_post", !.port = ConnectedPort])
  /\ UNCHANGED <<schmerSession, chanVars, envVars, hist>>

\* port.postMessage(START_RECORDING); the session metadata is persisted and
\* resp is sent back (a throw of postMessage is answered by the catch).  The
\* content script of the sender posts SCHMER_RECORDING_STARTED to its page when
\* resp.success, else SCHMER_ERROR.
SchmerStartPost(i) ==
  /\ tasks[i].pc = "sstart_post"
  /\ CanPost(tasks[i].port)
  /\ swToOff' = Posted(tasks[i].port, StartMessage(tasks[i].cfg))
  /\ tasks' = Done(i)
  /\ hist' = HistPosted(hist, tasks[i].port, tasks[i].sender)
  /\ UNCHANGED <<recordingState, recordingStartTime, schmerSession, offscreenPort, clock,
                 surfVars, offToSw, envVars>>

\* ---------------------------------------------------- SCHMER_HANDSHAKE
\* chrome.runtime.getManifest().version of the extension (the manifest is not
\* loaded without one)
ManifestVersion == "1.0.0"

\* the handshake refused
HandshakeRefused == [ok |-> FALSE, version |-> Null]

\* sendResponse({ok: true, version: mf?.version || null})
HandshakeResponse == [ok |-> TRUE, version |-> ManifestVersion]

\* the content script: postToPage('SCHMER_PONG', {detected: resp?.ok !== false,
\* version: resp?.version || null})
Pong(resp) == [detected |-> resp.ok # FALSE, version |-> resp.version]

\* a start or a stop is in progress in the Coordinator
StartOrStopInProgress ==
  \E i \in DOMAIN tasks :
    tasks[i].pc \in {"sstart_guard", "sstart_created", "sstart_wait", "sstart_post",
                     "stop_wait", "rs_relay", "rs_close", "rs_reset"}

\* A page's SCHMER_PING, forwarded by its content script as SCHMER_HANDSHAKE:
\* the listener answers synchronously, and the content script posts SCHMER_PONG.
SchmerHandshake ==
  /\ openTabs \cap PageTabs # {}
  /\ hist' = IF hist.track = "probe"
               THEN [hist EXCEPT !.pong = Pong(HandshakeResponse),
                                 !.probedIn = @ \cup {recordingState},
                                 !.probedBusy = @ \/ StartOrStopInProgress]
               ELSE hist
  /\ UNCHANGED <<swVars, surfVars, chanVars, envVars>>

\* --------------------------------------------------- SCHMER_VISIBILITY
\* if (!schmerSession.active) return; else the persisted state is asked for
SchmerVisibility ==
  \E visible \in BOOLEAN :
    /\ schmerSession.active
    /\ HasSlot
    /\ tasks' = Spawn([NoTask EXCEPT !.pc = "vis_decide", !.visible = visible,
                                     !.st = recordingState])
    /\ UNCHANGED <<recordingState, recordingStartTime, schmerSession, offscreenPort, clock,
                   surfVars, chanVars, envVars, hist>>

\* visible: rs === 'recording' && !schmerSession.autoPaused
AutoPauseDue(rs, sess) == rs = "recording" /\ ~sess.autoPaused

\* hidden: rs === 'paused' && schmerSession.autoPaused
AutoResumeDue(rs, sess) == rs = "paused" /\ sess.autoPaused

\* The answer of storage.get has come: pause, resume, or nothing
VisibilityDecide(i) ==
  /\ tasks[i].pc = "vis_decide"
  /\ LET t == tasks[i]
         pause == t.visible /\ AutoPauseDue(t.st, schmerSession)
         resume == ~t.visible /\ AutoResumeDue(t.st, schmerSession)
         rs == IF pause THEN "paused" ELSE "recording"
         post == IF pause THEN "vis_pause_post" ELSE "vis_resume_post"
         wait == IF pause THEN "vis_pause_wait" ELSE "vis_resume_wait"
     IN \/ /\ ~pause /\ ~resume
           /\ tasks' = Done(i)
           /\ UNCHANGED <<recordingState, recordingStartTime, schmerSession, offscreenPort,
                          clock, surfVars, chanVars, envVars, hist>>
        \/ /\ pause \/ resume
           /\ offscreenPort # 0
           /\ recordingState' = rs
           /\ tasks' = Put(i, [t EXCEPT !.pc = post, !.port = offscreenPort])
           /\ hist' = IF pause THEN PausedBy(Ev(hist, "pause"), "visibility")
                              ELSE Ev(hist, "resume")
           /\ UNCHANGED <<recordingStartTime, schmerSession, offscreenPort, clock,
                          surfVars, chanVars, envVars>>
        \/ /\ pause \/ resume
           /\ offscreenPort = 0
           /\ CanEnsure
           /\ ensureOffscreenExists
           /\ tasks' = Put(i, [t EXCEPT !.pc = wait])
           /\ hist' = Ev(hist, IF pause THEN "pause" ELSE "resume")
           /\ UNCHANGED <<recordingState, recordingStartTime, schmerSession, offscreenPort,
                          clock, envVars>>

\* handlePauseRecording() has returned: schmerSession.autoPaused = true.  A throw
\* of postMessage skips the assignment (catch: sendResponse({ok: false})).
VisibilityPausePost(i) ==
  /\ tasks[i].pc = "vis_pause_post"
  /\ CanPost(tasks[i].port)
  /\ swToOff' = Posted(tasks[i].port, Plain("PAUSE_RECORDING"))
  /\ schmerSession' = IF PortAlive(tasks[i].port)
                        THEN [schmerSession EXCEPT !.autoPaused = TRUE]
                        ELSE schmerSession
  /\ tasks' = Done(i)
  /\ UNCHANGED <<recordingState, recordingStartTime, offscreenPort, clock,
                 surfVars, offToSw, envVars, hist>>

\* handleResumeRecording() has returned: schmerSession.autoPaused = false
VisibilityResumePost(i) ==
  /\ tasks[i].pc = "vis_resume_post"
  /\ CanPost(tasks[i].port)
  /\ swToOff' = Posted(tasks[i].port, Plain("RESUME_RECORDING"))
  /\ schmerSession' = IF PortAlive(tasks[i].port)
                        THEN [schmerSession EXCEPT !.autoPaused = FALSE]
                        ELSE schmerSession
  /\ tasks' = Done(i)
  /\ UNCHANGED <<recordingState, recordingStartTime, offscreenPort, clock,
                 surfVars, offToSw, envVars, hist>>

\* ------------------------------- chrome.tabs.onCreated, chrome.tabs.onUpdated
\* The URLs a tab the user opens may be at; the first starts with the other
\* (the tool URL of the start messages), the last is elsewhere
TabUrls == {"https://tool/sketch", "https://tool", "https://other"}

\* got.href.startsWith(want.href), the hosts being equal
StartsWith(url, want) ==
  \/ url = want
  \/ url = "https://tool/sketch" /\ want = "https://tool"

\* urlMatchesExpected(url)
urlMatchesExpected(sess, url) ==
  sess.expectedToolUrl # Null /\ StartsWith(url, sess.expectedToolUrl)

\* The user opens a tab at url: onCreated, and onUpdated when it has loaded,
\* bind it as the tool tab if a session is active, no tool tab is bound and
\* the URL matches expectedToolUrl
Discovered(sess, tabId, url) ==
  IF sess.active /\ sess.toolTabId = NoTab /\ urlMatchesExpected(sess, url)
    THEN [sess EXCEPT !.toolTabId = tabId]
    ELSE sess

TabOpened ==
  \E url \in TabUrls :
    /\ tabsCreated < MaxNewTabs
    /\ tabsCreated' = tabsCreated + 1
    /\ openTabs' = openTabs \cup {NumPages + tabsCreated + 1}
    /\ schmerSession' = Discovered(schmerSession, NumPages + tabsCreated + 1, url)
    /\ hist' = IF hist.track = "binding" /\ StartsWith(url, "https://tool")
                 THEN [hist EXCEPT !.matching = @ \cup {NumPages + tabsCreated + 1}]
                 ELSE hist
    /\ UNCHANGED <<recordingState, recordingStartTime, offscreenPort, tasks, clock,
                   surfVars, chanVars, recorder, dashboard, callers, setup, content>>

\* The 800 ms timer of a start whose page opened the tool itself fires: the
\* tabs are queried, and the id of one whose URL starts with the tool URL is
\* written to schmerSession.toolTabId
ToolTabTimer ==
  /\ hist.timer # Null
  /\ \/ /\ hist.matching \cap openTabs = {}
        /\ UNCHANGED schmerSession
     \/ \E match \in hist.matching \cap openTabs :
          schmerSession' = [schmerSession EXCEPT !.toolTabId = match]
  /\ hist' = [hist EXCEPT !.timer = Null]
  /\ UNCHANGED <<recordingState, recordingStartTime, offscreenPort, tasks, clock,
                 surfVars, chanVars, envVars>>

\* ------------------------------------------------- chrome.tabs.onRemoved
\* if (!active) return; if (toolTabId == null) return; if (closedTabId !== toolTabId) return;
ToolTabClosed(sess, closedTabId) ==
  sess.active /\ sess.toolTabId # NoTab /\ closedTabId = sess.toolTabId

\* hist after tab closedTabId went away
HistClosed(h, closedTabId) ==
  IF h.track = "stops" /\ closedTabId = h.boundTab
    THEN [h EXCEPT !.closedIn = recordingState] ELSE h

TabRemoved(closedTabId) ==
    /\ closedTabId \in openTabs
    /\ openTabs' = openTabs \ {closedTabId}
    /\ UNCHANGED <<tabsCreated, recorder, dashboard, callers, setup, content>>
    /\ \/ /\ ~ToolTabClosed(schmerSession, closedTabId)
          /\ hist' = HistClosed(hist, closedTabId)
          /\ UNCHANGED <<swVars, surfVars, chanVars>>
       \/ /\ ToolTabClosed(schmerSession, closedTabId)
          /\ offscreenPort # 0
          /\ Len(swToOff) < MaxQueue
          /\ StopNow(offscreenPort)
          /\ hist' = HistStopPosted(Ev(HistClosed(hist, closedTabId), "stop"), offscreenPort)
          /\ UNCHANGED <<recordingStartTime, schmerSession, offscreenPort, tasks, clock,
                         surfVars, offToSw>>
       \/ /\ ToolTabClosed(schmerSession, closedTabId)
          /\ offscreenPort = 0
          /\ HasSlot
          /\ CanEnsure
          /\ ensureOffscreenExists
          /\ tasks' = Spawn([NoTask EXCEPT !.pc = "tabstop_wait"])
          /\ hist' = Ev(HistClosed(hist, closedTabId), "stop")
          /\ UNCHANGED <<recordingState, recordingStartTime, schmerSession, offscreenPort,
                         clock>>

\* ------------------------------------------------ handleOffscreenMessage
\* message.type === 'STATUS_UPDATE': logged
OffscreenStatusUpdate ==
  /\ offToSw # <<>>
  /\ Head(offToSw).type = "STATUS_UPDATE"
  /\ offToSw' = Tail(offToSw)
  /\ hist' = IF Head(offToSw).data = "Recording started" THEN Ev(hist, "began") ELSE hist
  /\ UNCHANGED <<swVars, surfVars, swToOff, envVars>>

\* message.type === 'ERROR': storage.set({recordingState: 'stopped'}), and the
\* page of an active session is told
OffscreenError ==
  /\ offToSw # <<>>
  /\ Head(offToSw).type = "ERROR"
  /\ offToSw' = Tail(offToSw)
  /\ recordingState' = "stopped"
  /\ hist' = Ev(hist, "failure")
  /\ UNCHANGED <<recordingStartTime, schmerSession, offscreenPort, tasks, clock,
                 surfVars, swToOff, envVars>>

\* message.type === 'RECORDING_STOPPED': handleRecordingStopped(message) up to
\* its first await, fetch(blobUrl); the branch is chosen here
OffscreenRecordingStopped ==
  /\ offToSw # <<>>
  /\ Head(offToSw).type = "RECORDING_STOPPED"
  /\ HasSlot
  /\ offToSw' = Tail(offToSw)
  /\ tasks' = Spawn([NoTask EXCEPT
                       !.pc = IF schmerSession.active /\ schmerSession.tabId # NoTab
                                THEN "rs_relay" ELSE "rs_upload",
                       !.port = docGen,
                       !.size = Head(offToSw).size])
  /\ hist' = Ev(hist, "artifact")
  /\ UNCHANGED <<recordingState, recordingStartTime, schmerSession, offscreenPort, clock,
                 surfVars, swToOff, envVars>>

Attempt(tier, to, size, ok) == [tier |-> tier, to |-> to, size |-> size, ok |-> ok]

\* The blob is fetched and relayed to the session's page: tabs.sendMessage(
\* schmerSession.tabId, SCHMER_RECORDING_READY), whose failure is swallowed;
\* SCHMER_RECORDING_STOPPED follows.  A blob whose document is gone cannot be
\* fetched: the throw goes to the outer catch.  Then the finally block's delay.
RecordingStoppedRelay(i) ==
  /\ tasks[i].pc = "rs_relay"
  /\ tasks' = Put(i, [tasks[i] EXCEPT
                        !.pc = "rs_close",
                        !.log = IF PortAlive(tasks[i].port)
                                  THEN <<Attempt("relay", schmerSession.tabId, tasks[i].size,
                                                 schmerSession.tabId \in openTabs)>>
                                  ELSE <<>>])
  /\ UNCHANGED <<recordingState, recordingStartTime, schmerSession, offscreenPort, clock,
                 surfVars, chanVars, envVars, hist>>

\* the upload alone, whatever came of it
UploadOnly(size, uploaded, saved) == <<Attempt("upload", NoTab, size, uploaded)>>

\* let uploadedToBackend = false; ... the upload; if (!uploadedToBackend) the
\* download
UploadThenDownload(size, uploaded, saved) ==
  IF uploaded
    THEN <<Attempt("upload", NoTab, size, TRUE)>>
    ELSE <<Attempt("upload", NoTab, size, FALSE), Attempt("download", NoTab, size, saved)>>

\* No active session: upload to BACKEND_URL, and chrome.downloads.download
\* when the upload did not succeed
RecordingStoppedUpload(i) ==
  /\ tasks[i].pc = "rs_upload"
  /\ \E uploaded \in BOOLEAN, saved \in BOOLEAN :
       /\ uploaded => PortAlive(tasks[i].port)
       /\ saved => PortAlive(tasks[i].port)
       /\ tasks' = Put(i, [tasks[i] EXCEPT
                             !.pc = "rs_close",
                             !.log = UploadThenDownload(tasks[i].size, uploaded, saved)])
  /\ UNCHANGED <<recordingState, recordingStartTime, schmerSession, offscreenPort, clock,
                 surfVars, chanVars, envVars, hist>>

\* closeOffscreen(): the document goes, and with it the recorder, the streams,
\* the port and what was in flight on it (onDisconnect: offscreenPort = null)
closeOffscreen ==
  IF offscreenDoc
    THEN /\ offscreenDoc' = FALSE
         /\ docGen' = docGen
         /\ SurfaceFresh
         /\ swToOff' = <<>>
         /\ offToSw' = <<>>
         /\ offscreenPort' = 0
    ELSE UNCHANGED <<surfVars, chanVars, offscreenPort>>

RecordingStoppedClose(i) ==
  /\ tasks[i].pc = "rs_close"
  /\ closeOffscreen
  /\ tasks' = Put(i, [tasks[i] EXCEPT !.pc = "rs_reset"])
  /\ UNCHANGED <<recordingState, recordingStartTime, schmerSession, clock, envVars,
                 hist>>

\* the session left as it is
SessionKept(sess) == sess

\* Reset schmer session after stop; tabId is left
SessionReset(sess) ==
  [sess EXCEPT !.active = FALSE, !.autoPaused = FALSE, !.projectId = Null,
               !.tool = Null, !.expectedToolUrl = Null, !.toolTabId = NoTab]

RecordingStoppedReset(i) ==
  /\ tasks[i].pc = "rs_reset"
  /\ schmerSession' = SessionReset(schmerSession)
  /\ tasks' = Done(i)
  /\ hist' = [hist EXCEPT !.boundTab = NoTab, !.closedIn = Null, !.stops = 0,
                           !.initiator = NoTab, !.bytes = 0, !.ended = TRUE,
                           !.declared = FALSE]
  /\ UNCHANGED <<recordingState, recordingStartTime, offscreenPort, clock,
                 surfVars, chanVars, envVars>>

\* ================================================= the offscreen document
\* sendToServiceWorker(message): dropped when the port is not connected
Reported(m) == IF port THEN Append(offToSw, m) ELSE offToSw

Room(n) == Len(offToSw) + n <= MaxQueue

\* stopRecording(): with no recorder "No active recording" is reported; else
\* onstop is set to the promise's resolve and the recorder is stopped
stopRecording ==
  IF mediaRecorder = "null"
    THEN /\ offToSw' = Reported(PortMsg("STATUS_UPDATE", "No active recording", NoCfg, 0))
         /\ UNCHANGED <<mediaRecorder, stopping, hist>>
    ELSE /\ mediaRecorder' = "inactive"
         /\ stopping' = TRUE
         /\ hist' = HistAwaits(hist)
         /\ UNCHANGED offToSw

\* handleMessage(message): the next message of the port
SurfaceStartRecording ==
  /\ swToOff # <<>>
  /\ Head(swToOff).type = "START_RECORDING"
  /\ swToOff' = Tail(swToOff)
  /\ recordedChunks' = <<>>
  /\ acquiring' = Append(acquiring, Head(swToOff).cfg)
  /\ UNCHANGED <<swVars, offscreenDoc, docGen, port, mediaRecorder, currentStream,
                 stopping, orphans, offToSw, envVars, hist>>

\* A surface that pauses and resumes in whatever state the encoder is
PauseAnyState(state) == "paused"

\* pauseRecording(): only a recorder that records is paused; the encoder's
\* state after the call
pauseRecording(state) == IF state = "recording" THEN "paused" ELSE state

\* resumeRecording(): only a paused recorder is resumed
resumeRecording(state) == IF state = "paused" THEN "recording" ELSE state

SurfacePauseRecording ==
  /\ swToOff # <<>>
  /\ Head(swToOff).type = "PAUSE_RECORDING"
  /\ swToOff' = Tail(swToOff)
  /\ mediaRecorder' = pauseRecording(mediaRecorder)
  /\ hist' = Taken(hist, "pause", mediaRecorder)
  /\ UNCHANGED <<swVars, offscreenDoc, docGen, port, recordedChunks, currentStream,
                 acquiring, stopping, orphans, offToSw, envVars>>

SurfaceResumeRecording ==
  /\ swToOff # <<>>
  /\ Head(swToOff).type = "RESUME_RECORDING"
  /\ swToOff' = Tail(swToOff)
  /\ mediaRecorder' = resumeRecording(mediaRecorder)
  /\ hist' = Taken(hist, "resume", mediaRecorder)
  /\ UNCHANGED <<swVars, offscreenDoc, docGen, port, recordedChunks, currentStream,
                 acquiring, stopping, orphans, offToSw, envVars>>

SurfaceStopRecording ==
  /\ swToOff # <<>>
  /\ Head(swToOff).type = "STOP_RECORDING"
  /\ Room(1)
  /\ swToOff' = Tail(swToOff)
  /\ stopRecording
  /\ UNCHANGED <<swVars, offscreenDoc, docGen, port, recordedChunks, currentStream,
                 acquiring, orphans, envVars>>

\* getDisplayMedia resolves: combineStreams, startMediaRecorder (a recorder the
\* variable held before is left running), "Recording started" is reported
DisplayMediaGranted ==
  /\ acquiring # <<>>
  /\ Room(1)
  /\ acquiring' = Tail(acquiring)
  /\ orphans' = IF mediaRecorder = "recording" THEN orphans + 1 ELSE orphans
  /\ mediaRecorder' = "recording"
  /\ currentStream' = "live"
  /\ stopping' = FALSE
  /\ offToSw' = Reported(PortMsg("STATUS_UPDATE", "Recording started", NoCfg, 0))
  /\ hist' = HistRecorder(hist)
  /\ UNCHANGED <<swVars, offscreenDoc, docGen, port, recordedChunks, swToOff,
                 envVars>>

\* getDisplayMedia rejects (the prompt is dismissed): ERROR is reported by
\* getDisplayMedia's catch and again by startRecording's
DisplayMediaDenied ==
  /\ acquiring # <<>>
  /\ Room(2)
  /\ acquiring' = Tail(acquiring)
  /\ offToSw' = Reported(PortMsg("ERROR", "NotAllowedError", NoCfg, 0)) \o
                  (IF port THEN <<PortMsg("ERROR", "Permission denied", NoCfg, 0)>> ELSE <<>>)
  /\ UNCHANGED <<swVars, offscreenDoc, docGen, port, mediaRecorder, recordedChunks,
                 currentStream, stopping, orphans, swToOff, envVars, hist>>

\* mediaRecorder.ondataavailable: if (event.data.size > 0) recordedChunks.push
Pushed(chunks, size) == IF size > 0 THEN Append(chunks, size) ELSE chunks

\* The segment comes from the recorder the variable holds, or from one that a
\* later start left running: both push to the one array recordedChunks.
DataAvailable ==
  \E size \in 0..MaxSeg, held \in BOOLEAN :
    /\ IF held THEN mediaRecorder = "recording" ELSE orphans > 0
    /\ Len(recordedChunks) < MaxChunks
    /\ recordedChunks' = Pushed(recordedChunks, size)
    /\ hist' = IF held \/ hist.track = "initiator" THEN Segment(hist, size) ELSE hist
    /\ UNCHANGED <<swVars, offscreenDoc, docGen, port, mediaRecorder, currentStream,
                   acquiring, stopping, orphans, chanVars, envVars>>

\* track.onended (the user stops sharing): stopRecording()
TrackEnded ==
  /\ currentStream = "live"
  /\ Room(1)
  /\ currentStream' = "ended"
  /\ stopRecording
  /\ UNCHANGED <<swVars, offscreenDoc, docGen, port, recordedChunks, acquiring, orphans,
                 swToOff, envVars>>

\* new Blob(recordedChunks)
BlobSize(chunks) == SumSeq(chunks)

\* The recorder's stop event, after its last dataavailable: the awaiting
\* stopRecording goes on: tracks stopped, blob built, RECORDING_STOPPED
\* reported, state reset
RecorderStopped ==
  \E size \in 0..MaxSeg :
    /\ mediaRecorder = "inactive"
    /\ stopping
    /\ Room(1)
    /\ Len(recordedChunks) < MaxChunks \/ size = 0
    /\ offToSw' = Reported(PortMsg("RECORDING_STOPPED", "", NoCfg,
                                   BlobSize(Pushed(recordedChunks, size))))
    /\ mediaRecorder' = "null"
    /\ recordedChunks' = <<>>
    /\ currentStream' = "null"
    /\ stopping' = FALSE
    /\ hist' = HistResumed(Segment(hist, size))
    /\ UNCHANGED <<swVars, offscreenDoc, docGen, port, acquiring, orphans, swToOff,
                   envVars>>

\* ============================================ the recorder that saves the file
\* what is not the recorder's
extensionVars == <<swVars, surfVars, chanVars, openTabs, tabsCreated, dashboard, callers,
                   setup, content, hist>>

\* the same without the history
extensionState == <<swVars, surfVars, chanVars, openTabs, tabsCreated, dashboard, callers,
                    setup, content>>

\* The options of a start-recording message
RecorderOptions == [useMic : BOOLEAN, systemAudio : BOOLEAN]

\* chrome.runtime.sendMessage({ type: 'offscreen-state', state: patch })
sendState(r, status, lastError) ==
  [r EXCEPT !.sent = Append(@, [type |-> "offscreen-state", status |-> status,
                                error |-> lastError])]

\* chrome.runtime.sendMessage({ type: 'offscreen-error', error: message })
sendError(r, message) ==
  [r EXCEPT !.sent = Append(@, [type |-> "offscreen-error", status |-> "",
                                error |-> message])]

SentRoom(n) == Len(recorder.sent) + n <= MaxSent

\* cleanupStreams(): the tracks of the streams the variables hold are stopped,
\* the AudioContext the variable holds is closed
Released(r) ==
  (IF r.displayStream # "null" THEN {"display"} ELSE {}) \cup
  (IF r.micStream # "null" THEN {"mic"} ELSE {}) \cup
  (IF r.audioContext THEN {"context"} ELSE {})

cleanupStreams(r) ==
  [r EXCEPT !.handles = @ \ Released(r),
            !.displayStream = "null", !.micStream = "null", !.mixedStream = "null",
            !.audioContext = FALSE]

\* lastStopReason !== 'stop-requested' ? lastStopReason : null
ReasonOrNull(reason) == IF reason # "stop-requested" THEN reason ELSE Null

\* stopRecording(reason) of the recorder: an active recorder is stopped, its
\* stop event queued; with none, or one already inactive, the streams are
\* cleaned up and 'idle' is sent with lastError: reason
RecorderStopRecording(r, reason) ==
  LET r1 == [r EXCEPT !.stopping = TRUE, !.lastStopReason = reason]
  IN  IF r.mediaRecorder \in {"recording", "paused"}
        THEN [r1 EXCEPT !.mediaRecorder = "inactive", !.stopEvent = TRUE,
                        !.stopped = r.recorded, !.recorded = 0,
                        !.owed = IF hist.track = "files" THEN SumSeq(r.chunks) ELSE 0]
        ELSE sendState(cleanupStreams(r1), "idle", reason)

\* startedAt = null; pausedAt = null; runningStart = null; elapsedMs = 0
TimesReset(r) ==
  [r EXCEPT !.startedAt = NoTime, !.pausedAt = NoTime, !.runningStart = NoTime,
            !.elapsedMs = 0]

\* mediaRecorder.onstart
onstart(r) ==
  [r EXCEPT !.startedAt = r.now, !.runningStart = r.now, !.elapsedMs = 0, !.recorded = 0]

\* mediaRecorder.onpause
onpause(r) ==
  [r EXCEPT !.elapsedMs = @ + (r.now - r.runningStart), !.pausedAt = r.now,
            !.runningStart = NoTime]

\* mediaRecorder.onresume
onresume(r) ==
  IF r.pausedAt # NoTime
    THEN [r EXCEPT !.runningStart = r.now, !.pausedAt = NoTime]
    ELSE r

\* mediaRecorder.onstop: the running interval is added, totalElapsed sent
TotalElapsed(r) ==
  IF r.pausedAt = NoTime /\ r.runningStart # NoTime
    THEN r.elapsedMs + (r.now - r.runningStart)
    ELSE r.elapsedMs

\* 'start-recording': a recorder the variable holds is stopped first, the
\* variables are reset, getDisplayMedia is awaited
RecorderStartRecording ==
  \E options \in RecorderOptions :
    /\ recorder.start = "idle"
    /\ SentRoom(1)
    /\ recorder' = [(IF recorder.mediaRecorder # "null"
                       THEN RecorderStopRecording(recorder, "stop-requested")
                       ELSE recorder)
                     EXCEPT !.stopping = FALSE, !.lastStopReason = "stop-requested",
                            !.chunks = <<>>, !.start = "display", !.options = options,
                            !.startedAt = NoTime, !.pausedAt = NoTime,
                            !.runningStart = NoTime, !.elapsedMs = 0]
    /\ UNCHANGED extensionVars

\* getDisplayMedia rejects: sendError, sendState idle, return
RecorderDisplayDenied ==
  /\ recorder.start = "display"
  /\ SentRoom(2)
  /\ recorder' = sendState(sendError([recorder EXCEPT !.start = "idle"], "cancelled"),
                            "idle", "cancelled")
  /\ UNCHANGED extensionVars

\* The rest of startRecording, once the streams are there: the video tracks
\* are looked for (a displayStream that a stop set to null in the meantime
\* makes this throw; the listener's catch sends the error), the audio is
\* mixed, the MediaRecorder is constructed and started; its start event
\* sends 'recording'.
RecorderBuild(r, video, displayAudio, supported) ==
  IF r.displayStream = "null"
    THEN sendError(r, "unhandled")
    ELSE IF ~video
      THEN cleanupStreams(sendError(r, "no-video"))
      ELSE LET mixing == displayAudio \/ r.micStream # "null"
               r1 == [r EXCEPT !.audioContext = IF mixing THEN TRUE ELSE @,
                               !.handles = IF mixing THEN @ \cup {"context"} ELSE @,
                               !.mixedStream = "live"]
           IN  IF ~supported
                 THEN cleanupStreams(sendError(r1, "unsupported"))
                 ELSE sendState(onstart([r1 EXCEPT !.mediaRecorder = "recording"]),
                                "recording", Null)

\* getDisplayMedia resolves: the track-end handlers are attached; with useMic
\* getUserMedia is awaited, else the recorder is built
RecorderDisplayGranted ==
  \E video \in BOOLEAN, displayAudio \in BOOLEAN, supported \in BOOLEAN :
    /\ recorder.start = "display"
    /\ SentRoom(1)
    /\ displayAudio => recorder.options.systemAudio
    /\ LET r1 == [recorder EXCEPT !.displayStream = "live",
                                   !.handles = @ \cup {"display"}]
       IN  recorder' = IF recorder.options.useMic
                         THEN [r1 EXCEPT !.start = "mic"]
                         ELSE RecorderBuild([r1 EXCEPT !.start = "idle"],
                                            video, displayAudio, supported)
    /\ UNCHANGED extensionVars

\* getUserMedia resolves
RecorderMicGranted ==
  \E video \in BOOLEAN, displayAudio \in BOOLEAN, supported \in BOOLEAN :
    /\ recorder.start = "mic"
    /\ SentRoom(1)
    /\ displayAudio => recorder.options.systemAudio
    /\ recorder' = RecorderBuild([recorder EXCEPT !.micStream = "live",
                                                   !.handles = @ \cup {"mic"},
                                                   !.start = "idle"],
                                  video, displayAudio, supported)
    /\ UNCHANGED extensionVars

\* getUserMedia rejects: sendError, sendState idle, cleanupStreams, return
RecorderMicDenied ==
  /\ recorder.start = "mic"
  /\ SentRoom(2)
  /\ recorder' = cleanupStreams(sendState(sendError([recorder EXCEPT !.start = "idle"],
                                                     "mic-unavailable"),
                                           "idle", "mic-unavailable"))
  /\ UNCHANGED extensionVars

\* 'pause-recording'; the recorder's pause event sends 'paused'
RecorderPauseRecording ==
  /\ SentRoom(1)
  /\ recorder' = LET state == pauseRecording(recorder.mediaRecorder)
                 IN  IF state # recorder.mediaRecorder
                       THEN sendState(onpause([recorder EXCEPT !.mediaRecorder = state]),
                                      state, Null)
                       ELSE recorder
  /\ hist' = Taken(hist, "pause", recorder.mediaRecorder)
  /\ UNCHANGED extensionState

\* 'resume-recording'; the recorder's resume event sends 'recording'
RecorderResumeRecording ==
  /\ SentRoom(1)
  /\ recorder' = LET state == resumeRecording(recorder.mediaRecorder)
                 IN  IF state # recorder.mediaRecorder
                       THEN sendState(onresume([recorder EXCEPT !.mediaRecorder = state]),
                                      state, Null)
                       ELSE recorder
  /\ hist' = Taken(hist, "resume", recorder.mediaRecorder)
  /\ UNCHANGED extensionState

\* 'stop-recording'
RecorderStop ==
  /\ SentRoom(1)
  /\ recorder' = RecorderStopRecording(recorder, "stop-requested")
  /\ UNCHANGED extensionVars

\* track.onended of a stream's tracks (attachTrackEndHandlers): if (!stopping)
\* the error is sent and stopRecording called with the reason
RecorderTrackEnded ==
  \E h \in recorder.handles \cap {"display", "mic"} :
    /\ SentRoom(2)
    /\ LET r1 == [recorder EXCEPT !.handles = @ \ {h}]
       IN  recorder' = IF ~recorder.stopping
                         THEN RecorderStopRecording(sendError(r1, "source-ended"),
                                                    "source-ended")
                         ELSE r1
    /\ UNCHANGED extensionVars

\* mediaRecorder.ondataavailable: if (event.data && event.data.size > 0) chunks.push
RecorderDataAvailable ==
  \E size \in 0..MaxSeg :
    /\ recorder.mediaRecorder = "recording"
    /\ Len(recorder.chunks) < MaxChunks
    /\ recorder' = [recorder EXCEPT !.chunks = Pushed(@, size)]
    /\ UNCHANGED extensionVars

\* mediaRecorder.onerror: sendError, stopRecording('Recorder error')
RecorderError ==
  /\ recorder.mediaRecorder \in {"recording", "paused"}
  /\ SentRoom(2)
  /\ recorder' = RecorderStopRecording(sendError(recorder, "recorder-error"),
                                        "recorder-error")
  /\ UNCHANGED extensionVars

\* The end of onstop: cleanupStreams, the variables reset, 'idle' sent with
\* the reason of the stop
RecorderFinish(r) ==
  sendState(TimesReset([cleanupStreams(r) EXCEPT !.chunks = <<>>, !.mediaRecorder = "null",
                                                 !.stopping = FALSE,
                                                 !.lastStopReason = "stop-requested",
                                                 !.onstop = "idle"]),
            "idle", ReasonOrNull(r.lastStopReason))

\* What onstop, run with the last segment of size bytes, is recorded to have
\* sent and found (in the runs that record it)
StopReported(r, size) ==
  CASE hist.track = "elapsed" ->
         [NoReport EXCEPT !.sent = TRUE, !.elapsedMs = TotalElapsed(r),
                          !.recorded = r.stopped]
    [] hist.track = "files" ->
         [NoReport EXCEPT !.sent = TRUE,
                          !.whole = BlobSize(Pushed(r.chunks, size)) = r.owed + size]
    [] OTHER -> NoReport

\* The recorder's last dataavailable and its stop event: onstop sends
\* 'stopping' and, if (chunks.length), builds the blob and awaits
\* triggerDownload
RecorderStopEvent ==
  \E size \in 0..MaxSeg :
    /\ recorder.stopEvent
    /\ recorder.onstop = "idle"
    /\ SentRoom(2)
    /\ Len(recorder.chunks) < MaxChunks \/ size = 0
    /\ LET r1 == sendState([recorder EXCEPT !.stopEvent = FALSE,
                                             !.chunks = Pushed(@, size),
                                             !.elapsedMs = TotalElapsed(recorder),
                                             !.owed = 0,
                                             !.report = StopReported(recorder, size)],
                            "stopping", ReasonOrNull(recorder.lastStopReason))
       IN  recorder' = IF r1.chunks # <<>>
                         THEN [r1 EXCEPT !.onstop = "download"]
                         ELSE RecorderFinish(r1)
    /\ UNCHANGED extensionVars

\* chrome.downloads.download resolves, and onstop goes on to its end; or it
\* rejects, and onstop ends there with its rejection unhandled
RecorderDownloaded ==
  \E ok \in BOOLEAN :
    /\ recorder.onstop = "download"
    /\ SentRoom(1)
    /\ recorder' = IF ok THEN RecorderFinish(recorder)
                          ELSE [recorder EXCEPT !.onstop = "idle"]
    /\ UNCHANGED extensionVars

\* Time passes; an encoder that records has recorded for as long.  The unit
\* is coarse: an event the encoder has queued fires before the clock moves.
RecorderTick ==
  /\ recorder.now < MaxNow
  /\ ~recorder.stopEvent
  /\ recorder' = [recorder EXCEPT !.now = @ + 1,
                                  !.recorded = IF recorder.mediaRecorder = "recording"
                                                 THEN @ + 1 ELSE @]
  /\ UNCHANGED extensionVars

\* a message the recorder sent is taken by its receiver
RecorderMessageTaken ==
  /\ recorder.sent # <<>>
  /\ recorder' = [recorder EXCEPT !.sent = Tail(@)]
  /\ UNCHANGED extensionVars

\* ==================================================================== next
\* a step of a handler of the service worker
Coordinator ==
  \/ PopupStartRecording
  \/ PauseRecording
  \/ ResumeRecording
  \/ StopRecording
  \/ SchmerStartRecording
  \/ SchmerVisibility
  \/ OffscreenStatusUpdate
  \/ OffscreenError
  \/ OffscreenRecordingStopped
  \/ \E i \in DOMAIN tasks : PopupStartConnected(i)
  \/ \E i \in DOMAIN tasks : PopupStartPost(i)
  \/ \E i \in DOMAIN tasks : PauseConnected(i)
  \/ \E i \in DOMAIN tasks : PausePost(i)
  \/ \E i \in DOMAIN tasks : ResumeConnected(i)
  \/ \E i \in DOMAIN tasks : ResumePost(i)
  \/ \E i \in DOMAIN tasks : StopConnected(i)
  \/ \E i \in DOMAIN tasks : SchmerStartGuard(i)
  \/ \E i \in DOMAIN tasks : SchmerStartCreated(i)
  \/ \E i \in DOMAIN tasks : SchmerStartConnected(i)
  \/ \E i \in DOMAIN tasks : SchmerStartPost(i)
  \/ \E i \in DOMAIN tasks : VisibilityDecide(i)
  \/ \E i \in DOMAIN tasks : VisibilityPausePost(i)
  \/ \E i \in DOMAIN tasks : VisibilityResumePost(i)
  \/ \E i \in DOMAIN tasks : RecordingStoppedRelay(i)
  \/ \E i \in DOMAIN tasks : RecordingStoppedUpload(i)
  \/ \E i \in DOMAIN tasks : RecordingStoppedClose(i)
  \/ \E i \in DOMAIN tasks : RecordingStoppedReset(i)

\* a step of the offscreen document, but for the periodic segments
Surface ==
  \/ SurfaceStartRecording
  \/ SurfacePauseRecording
  \/ SurfaceResumeRecording
  \/ SurfaceStopRecording
  \/ DisplayMediaGranted
  \/ DisplayMediaDenied
  \/ TrackEnded
  \/ RecorderStopped

\* a tab opened for a session is closed
ToolTabRemoved == \E closedTabId \in NewTabs : TabRemoved(closedTabId)

Next == Coordinator \/ Surface \/ ToolTabRemoved

Spec == Init /\ [][Next]_vars

\* the same program, with one part of the history recorded
SpecTable == InitWith("table", {1}, 0) /\ [][Next]_vars
SpecStops == InitWith("stops", {1}, MaxClock - 1) /\ [][Next]_vars
SpecPause == InitWith("pause", {1}, 0) /\ [][Next]_vars

\* The end-to-end scenario: two pages are open; the pages and the popup send
\* starts, of which one is accepted, and stops; the recorder gives its periodic
\* segments.
NextEndToEnd ==
  \/ PopupStartRecording
  \/ SchmerStartRecording
  \/ StopRecording
  \/ OffscreenStatusUpdate
  \/ OffscreenError
  \/ OffscreenRecordingStopped
  \/ \E i \in DOMAIN tasks : PopupStartConnected(i)
  \/ \E i \in DOMAIN tasks : PopupStartPost(i)
  \/ \E i \in DOMAIN tasks : StopConnected(i)
  \/ \E i \in DOMAIN tasks : SchmerStartGuard(i)
  \/ \E i \in DOMAIN tasks : SchmerStartCreated(i)
  \/ \E i \in DOMAIN tasks : SchmerStartConnected(i)
  \/ \E i \in DOMAIN tasks : SchmerStartPost(i)
  \/ \E i \in DOMAIN tasks : RecordingStoppedRelay(i)
  \/ \E i \in DOMAIN tasks : RecordingStoppedUpload(i)
  \/ \E i \in DOMAIN tasks : RecordingStoppedClose(i)
  \/ \E i \in DOMAIN tasks : RecordingStoppedReset(i)
  \/ SurfaceStartRecording
  \/ SurfaceStopRecording
  \/ DisplayMediaGranted
  \/ DisplayMediaDenied
  \/ DataAvailable
  \/ RecorderStopped

SpecEndToEnd == InitWith("initiator", PageTabs, MaxClock - 1) /\ [][NextEndToEnd]_vars

\* The end-to-end scenario of one page, with what the page is told recorded
SpecPages == InitWith("pages", {1}, MaxClock - 1) /\ [][NextEndToEnd]_vars

\* The scenario of one Bridge: the commands are those of one page, a start
\* that is accepted and stops, with the order of the commands received and
\* posted recorded
NextOrder ==
  \/ SchmerStartRecording
  \/ StopRecording
  \/ OffscreenStatusUpdate
  \/ OffscreenError
  \/ OffscreenRecordingStopped
  \/ \E i \in DOMAIN tasks : StopConnected(i)
  \/ \E i \in DOMAIN tasks : SchmerStartGuard(i)
  \/ \E i \in DOMAIN tasks : SchmerStartCreated(i)
  \/ \E i \in DOMAIN tasks : SchmerStartConnected(i)
  \/ \E i \in DOMAIN tasks : SchmerStartPost(i)
  \/ \E i \in DOMAIN tasks : RecordingStoppedRelay(i)
  \/ \E i \in DOMAIN tasks : RecordingStoppedClose(i)
  \/ \E i \in DOMAIN tasks : RecordingStoppedReset(i)
  \/ SurfaceStartRecording
  \/ SurfaceStopRecording
  \/ DisplayMediaGranted
  \/ DisplayMediaDenied
  \/ DataAvailable
  \/ RecorderStopped

SpecOrder == InitWith("order", {1}, MaxClock - 1) /\ [][NextOrder]_vars

\* The scenario of one Bridge in which, besides, the page reports its
\* visibility changes
NextVisibility ==
  \/ NextOrder
  \/ SchmerVisibility
  \/ \E i \in DOMAIN tasks : VisibilityDecide(i)
  \/ \E i \in DOMAIN tasks : VisibilityPausePost(i)
  \/ \E i \in DOMAIN tasks : VisibilityResumePost(i)

SpecVisibility == InitWith("order", {1}, MaxClock - 1) /\ [][NextVisibility]_vars

\* The scenario of one Bridge with visibility changes in which, besides, the
\* page probes for the extension
NextHandshake == NextVisibility \/ SchmerHandshake

SpecHandshake == InitWith("probe", {1}, MaxClock - 1) /\ [][NextHandshake]_vars

\* =================================== concurrent callers of connectToOffscreen
\* A command's handler calls connectToOffscreen(): if (offscreenPort) return
\* offscreenPort; else ensureOffscreenExists() is awaited
ConcurrentCall(c) ==
  /\ callers.pc[c] = "idle"
  /\ callers' = IF callers.offscreenPort # 0
                  THEN [callers EXCEPT !.pc[c] = "post", !.port[c] = callers.offscreenPort]
                  ELSE [callers EXCEPT !.pc[c] = "contexts"]
  /\ UNCHANGED <<swVars, surfVars, chanVars, openTabs, tabsCreated, recorder, dashboard,
                 setup, content, hist>>

\* getContexts has answered: return when a document exists, else createDocument
ConcurrentContexts(c) ==
  /\ callers.pc[c] = "contexts"
  /\ callers' = [callers EXCEPT !.pc[c] = IF callers.documents > 0 THEN "delay" ELSE "create"]
  /\ UNCHANGED <<swVars, surfVars, chanVars, openTabs, tabsCreated, recorder, dashboard,
                 setup, content, hist>>

\* createDocument has answered: the document is there, or the call was refused
\* because there is one already (the catch logs it)
ConcurrentCreate(c) ==
  /\ callers.pc[c] = "create"
  /\ callers' = [callers EXCEPT !.pc[c] = "delay",
                                !.documents = IF @ = 0 THEN 1 ELSE @]
  /\ UNCHANGED <<swVars, surfVars, chanVars, openTabs, tabsCreated, recorder, dashboard,
                 setup, content, hist>>

\* the port chrome.runtime.connect opens next
NewPort == Cardinality(callers.opened) + 1

\* The 500 ms are over: offscreenPort = chrome.runtime.connect(...), and the
\* document's onConnect listener sets port = incomingPort
ConcurrentConnect(c) ==
  /\ callers.pc[c] = "delay"
  /\ callers' = [callers EXCEPT !.pc[c] = "post",
                                !.port[c] = NewPort,
                                !.opened = @ \cup {NewPort},
                                !.offscreenPort = NewPort,
                                !.surfacePort = NewPort]
  /\ UNCHANGED <<swVars, surfVars, chanVars, openTabs, tabsCreated, recorder, dashboard,
                 setup, content, hist>>

\* port.postMessage(command) on the port connectToOffscreen returned
ConcurrentPost(c) ==
  /\ callers.pc[c] = "post"
  /\ callers' = [callers EXCEPT !.pc[c] = "done",
                                !.forwarded = @ \cup {<<c, callers.port[c]>>}]
  /\ UNCHANGED <<swVars, surfVars, chanVars, openTabs, tabsCreated, recorder, dashboard,
                 setup, content, hist>>

\* Commands that arrive while no port is open yet, in any interleaving
NextConcurrent ==
  \/ \E c \in Callers : ConcurrentCall(c)
  \/ \E c \in Callers : ConcurrentContexts(c)
  \/ \E c \in Callers : ConcurrentCreate(c)
  \/ \E c \in Callers : ConcurrentConnect(c)
  \/ \E c \in Callers : ConcurrentPost(c)

SpecConcurrent == Init /\ [][NextConcurrent]_vars

\* ================================================= the set-up of the encoder
Impls == {"offscreen.js", "part_002"}

\* What a start acquired: system audio was asked for (includeAudio,
\* options.systemAudio), the display stream has so many audio tracks (none when
\* audio: false was asked of getDisplayMedia), the microphone stream is there
StreamInputs ==
  {in \in [systemAudio : BOOLEAN, displayAudioTracks : 0..MaxAudioTracks, mic : BOOLEAN] :
     in.displayAudioTracks > 0 => in.systemAudio}

\* the audio tracks of a MediaStreamAudioDestinationNode's stream
DestinationTracks == 1

\* every audio track of the sources put into the stream as it is
AddTracks(impl, in) ==
  [video |-> 1, audio |-> in.displayAudioTracks + (IF in.mic THEN 1 ELSE 0), mixed |-> {}]

\* combineStreams(displayStream, micStream, includeTabAudio) of offscreen.js;
\* part_002: hasDisplayAudio || hasMicAudio, the sources connected to
\* destinationNode, mixedStream
combineStreams(impl, in) ==
  IF in.displayAudioTracks > 0 \/ in.mic
    THEN [video |-> 1,
          audio |-> DestinationTracks,
          mixed |-> (IF in.displayAudioTracks > 0 /\ (impl = "part_002" \/ in.systemAudio)
                       THEN {"display"} ELSE {})
                    \cup (IF in.mic THEN {"mic"} ELSE {})]
    ELSE [video |-> 1, audio |-> 0, mixed |-> {}]

\* const preferred = [...]
Preferred ==
  <<"video/webm;codecs=vp9,opus", "video/webm;codecs=vp8,opus", "video/webm">>

\* the types of the list, as a set
PreferredTypes == {Preferred[k] : k \in DOMAIN Preferred}

\* preferred.find((mime) => MediaRecorder.isTypeSupported(mime)) || ''
chooseMimeType(supported) ==
  IF \E k \in DOMAIN Preferred : Preferred[k] \in supported
    THEN Preferred[CHOOSE k \in DOMAIN Preferred :
                     /\ Preferred[k] \in supported
                     /\ \A j \in 1..(k - 1) : Preferred[j] \notin supported]
    ELSE ""

\* part_002: new MediaRecorder(mixedStream, mimeType ? {mimeType} : undefined);
\* the catch sends 'MediaRecorder unsupported in this browser.'
Part002Encoder(host) ==
  LET mimeType == chooseMimeType(host.supported)
      made == mimeType # "" \/ host.default
  IN  [mimeType |-> mimeType, active |-> made,
       error |-> IF made THEN Null ELSE "unsupported"]

\* offscreen.js startMediaRecorder: const mimeType = 'video/webm;codecs=vp8,opus';
\* a type that is not supported is only warned about, and the constructor,
\* given it, throws; startRecording's catch sends ERROR
OffscreenEncoder(host) ==
  LET mimeType == "video/webm;codecs=vp8,opus"
      made == mimeType \in host.supported
  IN  [mimeType |-> mimeType, active |-> made,
       error |-> IF made THEN Null ELSE "unsupported"]

\* the streams are acquired and combined
SetupCombine ==
  \E impl \in Impls, in \in StreamInputs :
    /\ setup.pc = "idle"
    /\ setup' = [setup EXCEPT !.impl = impl, !.pc = "combined", !.in = in,
                              !.stream = combineStreams(impl, in)]
    /\ UNCHANGED <<swVars, surfVars, chanVars, openTabs, tabsCreated, recorder, dashboard,
                   callers, content, hist>>

\* the encoder is constructed on a host
SetupEncoder ==
  \E supported \in SUBSET PreferredTypes, default \in BOOLEAN :
    /\ setup.pc = "combined"
    /\ LET host == [supported |-> supported, default |-> default]
       IN  setup' = [setup EXCEPT
                       !.pc = "done",
                       !.host = host,
                       !.encoder = IF setup.impl = "part_002"
                                     THEN Part002Encoder(host)
                                     ELSE OffscreenEncoder(host)]
    /\ UNCHANGED <<swVars, surfVars, chanVars, openTabs, tabsCreated, recorder, dashboard,
                   callers, content, hist>>

\* The set-up of the encoder alone, for every acquisition and every host
NextSetup == SetupCombine \/ SetupEncoder

SpecSetup == Init /\ [][NextSetup]_vars

\* ====================================================== the dashboard page
\* the three definitions of the SCHMER_RECORDING_READY case: the two of
\* hooks/useExtensionBridge.ts and the one of part_001
Hooks == {"bridge-1", "bridge-2", "part_001"}

\* what the POST to the backend's upload route came to: the request failed or
\* was refused, the upload was taken and the merge request after it threw, or
\* both went through
UploadResults == {"failed", "merge-failed", "ok"}

\* What the uploads and the local store give for one artifact: Supabase is
\* configured and takes the upload; VITE_BACKEND_URL is set (and usable from the
\* page); the result of the POST; saveLocalRecording does not throw
UploadInputs ==
  [supabase : BOOLEAN, configured : BOOLEAN, upload : UploadResults, saved : BOOLEAN]

\* the backend took the upload: the first definition uses
\* http://localhost:3000 when VITE_BACKEND_URL is not set
BackendTook(hook, in) ==
  (hook = "bridge-1" \/ in.configured) /\ in.upload \in {"merge-failed", "ok"}

\* uploadBlobToBackend of the first definition: if (!backendUrl) return
\* {ok: false}; ok = res.ok, the merge request in a try of its own
uploadBlobToBackend1(in) == in.upload \in {"merge-failed", "ok"}

\* uploadBlobToBackend of the second definition and of part_001: if
\* (!backendUrl) return false; a throw of the merge request is caught by the
\* try around both requests: return false
uploadBlobToBackend(in) == in.configured /\ in.upload = "ok"

\* case 'SCHMER_RECORDING_READY' of the first definition, with the blob in hand
Bridge1Ready(in) ==
  [uploaded |-> BackendTook("bridge-1", in),
   stored |-> FALSE,
   downloaded |-> FALSE,
   posted |-> {IF uploadBlobToBackend1(in) THEN "SCHMER_UPLOAD_OK" ELSE "SCHMER_UPLOAD_ERR",
               "SCHMER_REFRESH_SESSIONS"}]

\* case 'SCHMER_RECORDING_READY' of the second definition, with the blob in hand
Bridge2Ready(in) ==
  IF in.supabase
    THEN [uploaded |-> TRUE, stored |-> in.saved, downloaded |-> FALSE,
          posted |-> {"SCHMER_UPLOAD_OK", "SCHMER_REFRESH_SESSIONS"}]
    ELSE [uploaded |-> BackendTook("bridge-2", in),
          stored |-> in.saved,
          downloaded |-> ~uploadBlobToBackend(in),
          posted |-> {"SCHMER_UPLOAD_ERR", "SCHMER_REFRESH_SESSIONS"}]

\* case 'SCHMER_RECORDING_READY' of part_001, with the blob in hand
Part001Ready(in) ==
  CASE in.supabase ->
         [uploaded |-> TRUE, stored |-> FALSE, downloaded |-> FALSE,
          posted |-> {"SCHMER_REFRESH_SESSIONS"}]
    [] ~in.supabase /\ uploadBlobToBackend(in) ->
         [uploaded |-> TRUE, stored |-> FALSE, downloaded |-> FALSE,
          posted |-> {"SCHMER_REFRESH_SESSIONS"}]
    [] OTHER ->
         [uploaded |-> BackendTook("part_001", in),
          stored |-> in.saved,
          downloaded |-> ~in.saved,
          posted |-> IF in.saved THEN {"SCHMER_REFRESH_SESSIONS"} ELSE {}]

RecordingReady(hook, in) ==
  CASE hook = "bridge-1" -> Bridge1Ready(in)
    [] hook = "bridge-2" -> Bridge2Ready(in)
    [] hook = "part_001" -> Part001Ready(in)

\* SCHMER_RECORDING_READY reaches the page, with the blob, with a blobUrl to
\* fetch, or with neither: let b = blob || null; if (!b && blobUrl) the fetch
DashboardRecordingReady ==
  \E hook \in Hooks, payload \in {"blob", "blobUrl", "none"} :
    /\ dashboard.pc = "idle"
    /\ dashboard.handled < MaxReady
    /\ dashboard.hook \in {Null, hook}
    /\ dashboard' = [dashboard EXCEPT
                       !.hook = hook,
                       !.pc = CASE payload = "blob" -> "upload"
                                [] payload = "blobUrl" -> "fetch"
                                [] OTHER -> "idle"]
    /\ UNCHANGED <<swVars, surfVars, chanVars, openTabs, tabsCreated, recorder, callers,
                   setup, content, hist>>

\* fetch(blobUrl) and resp.blob() are done; a throw is swallowed and leaves b
\* null, with which the handler ends
DashboardFetched ==
  \E fetched \in BOOLEAN :
    /\ dashboard.pc = "fetch"
    /\ dashboard' = [dashboard EXCEPT !.pc = IF fetched THEN "upload" ELSE "idle"]
    /\ UNCHANGED <<swVars, surfVars, chanVars, openTabs, tabsCreated, recorder, callers,
                   setup, content, hist>>

\* the rest of the handler, with the blob in hand
DashboardUploaded ==
  \E in \in UploadInputs :
    /\ dashboard.pc = "upload"
    /\ dashboard' = [dashboard EXCEPT !.pc = "idle",
                                      !.handled = @ + 1,
                                      !.outcome = RecordingReady(dashboard.hook, in)]
    /\ UNCHANGED <<swVars, surfVars, chanVars, openTabs, tabsCreated, recorder, callers,
                   setup, content, hist>>

\* The dashboard page alone, given artifacts one after the other
NextDashboard ==
  \/ DashboardRecordingReady
  \/ DashboardFetched
  \/ DashboardUploaded

SpecDashboard == Init /\ [][NextDashboard]_vars

\* any tab that exists is closed: a page's, or one opened for a session
TabClosed == \E closedTabId \in openTabs : TabRemoved(closedTabId)

\* The delivery scenario: the end-to-end scenario in which, besides, tabs are
\* closed, so that the page of the session may be gone when the artifact is
\* ready.
NextDelivery == NextEndToEnd \/ TabClosed

\* The recorder that saves the file, with the commands, the prompts' answers
\* and the recorder's events in any order
NextRecorder ==
  \/ RecorderStartRecording
  \/ RecorderDisplayGranted
  \/ RecorderDisplayDenied
  \/ RecorderMicGranted
  \/ RecorderMicDenied
  \/ RecorderPauseRecording
  \/ RecorderResumeRecording
  \/ RecorderStop
  \/ RecorderTrackEnded
  \/ RecorderDataAvailable
  \/ RecorderError
  \/ RecorderStopEvent
  \/ RecorderDownloaded
  \/ RecorderMessageTaken

SpecRecorder == Init /\ [][NextRecorder]_vars

\* The same recorder while time passes
NextElapsed == NextRecorder \/ RecorderTick

SpecElapsed == InitWith("elapsed", {1}, 0) /\ [][NextElapsed]_vars

\* The recorder with what its stop handlers found recorded
SpecFiles == InitWith("files", {1}, 0) /\ [][NextRecorder]_vars

\* The two surfaces that pause and resume.  A build holds one of them: the
\* port-based surface, driven by one page's commands and visibility changes,
\* or the recorder that saves the file, with its commands in any order.  The
\* commands each takes are recorded with the encoder's state before them.
NextSurfaces ==
  \/ /\ hist.track = "offscreen.js"
     /\ NextVisibility \/ SurfacePauseRecording \/ SurfaceResumeRecording
  \/ /\ hist.track = "part_002"
     /\ NextRecorder

SpecSurfaces ==
  /\ InitWith("offscreen.js", {1}, MaxClock - 1) \/ InitWith("part_002", {1}, MaxClock - 1)
  /\ [][NextSurfaces]_vars

SpecDelivery == InitWith("initiator", PageTabs, MaxClock - 1) /\ [][NextDelivery]_vars

\* The scenario of one Bridge in which, besides, the user may stop sharing,
\* with the suspended calls of stopRecording counted
NextWaiters == NextOrder \/ TrackEnded

SpecWaiters == InitWith("waiters", {1}, MaxClock - 1) /\ [][NextWaiters]_vars

\* The scenario of one Bridge whose page sends starts only: a recording ends
\* when its tool tab is closed or its capture is refused; the user opens and
\* closes tabs and the tool-tab timer fires, with what each session said of
\* its tool recorded
NextBinding ==
  \/ SchmerStartRecording
  \/ OffscreenStatusUpdate
  \/ OffscreenError
  \/ OffscreenRecordingStopped
  \/ \E i \in DOMAIN tasks : SchmerStartGuard(i)
  \/ \E i \in DOMAIN tasks : SchmerStartCreated(i)
  \/ \E i \in DOMAIN tasks : SchmerStartConnected(i)
  \/ \E i \in DOMAIN tasks : SchmerStartPost(i)
  \/ \E i \in DOMAIN tasks : RecordingStoppedRelay(i)
  \/ \E i \in DOMAIN tasks : RecordingStoppedClose(i)
  \/ \E i \in DOMAIN tasks : RecordingStoppedReset(i)
  \/ SurfaceStartRecording
  \/ SurfaceStopRecording
  \/ DisplayMediaGranted
  \/ DisplayMediaDenied
  \/ DataAvailable
  \/ RecorderStopped
  \/ TabClosed
  \/ TabOpened
  \/ ToolTabTimer

SpecBinding == InitWith("binding", {1}, 0) /\ [][NextBinding]_vars

\* The end-to-end scenario of one page and the popup, with the origin of the
\* capture recorded
SpecOrigin == InitWith("origin", {1}, 0) /\ [][NextEndToEnd]_vars

\* The end-to-end scenario with one page and two starts, the segments of the
\* recorder in use counted.
SpecSegments == InitWith("segments", {1}, 0) /\ [][NextEndToEnd]_vars

\* ======================================= the recorder of the content script
\* what is not the content script's
pageVars == <<swVars, surfVars, chanVars, openTabs, tabsCreated, recorder, dashboard,
              callers, setup, hist>>

\* post(type, payload): window.postMessage to the page
post(c, type) == [c EXCEPT !.out = Append(@, type)]

ContentCanPost == Len(content.out) < MaxQueue

\* the MediaRecorders that are recording
Recording(c) == (IF c.mediaRecorder = "recording" THEN 1 ELSE 0) + c.orphans

\* case "SCHMER_PING"
ContentPing ==
  /\ ContentCanPost
  /\ content' = post(content, "SCHMER_PONG")
  /\ UNCHANGED pageVars

\* case "SCHMER_START_RECORDING", up to the await of getDisplayMedia:
\* startRecording returns at once if capturing is set, and the listener goes
\* on to post SCHMER_RECORDING_STARTED; if not, the call is suspended in
\* buildCaptureStream
ContentStartRecording ==
  /\ IF content.capturing
       THEN /\ ContentCanPost
            /\ content' = [post(content, "SCHMER_RECORDING_STARTED") EXCEPT !.last = "start"]
       ELSE /\ content.pending < MaxPending
            /\ content' = [content EXCEPT !.pending = @ + 1, !.last = "start"]
  /\ UNCHANGED pageVars

\* getDisplayMedia resolves: chunks and capturing are written, a MediaRecorder
\* is made of the stream, assigned to mediaRecorder and started, and the
\* listener posts SCHMER_RECORDING_STARTED. The user answers the prompt after
\* the stop event of a recorder stopped before has been dispatched.
ContentGranted ==
  /\ content.pending > 0
  /\ content.stopEvents = 0
  /\ Recording(content) < MaxLive
  /\ ContentCanPost
  /\ content' = post([content EXCEPT
                        !.pending = @ - 1,
                        !.chunks = 0,
                        !.capturing = TRUE,
                        !.orphans = IF content.mediaRecorder = "recording" THEN @ + 1 ELSE @,
                        !.mediaRecorder = "recording",
                        !.streams = @ + 1],
                     "SCHMER_RECORDING_STARTED")
  /\ UNCHANGED pageVars

\* getDisplayMedia rejects: the listener's catch posts SCHMER_ERROR
ContentDenied ==
  /\ content.pending > 0
  /\ ContentCanPost
  /\ content' = post([content EXCEPT !.pending = @ - 1], "SCHMER_ERROR")
  /\ UNCHANGED pageVars

\* ondataavailable of a recorder that records, with a segment that is not
\* empty
ContentDataAvailable ==
  /\ Recording(content) > 0
  /\ content.chunks < MaxChunks
  /\ content' = [content EXCEPT !.chunks = @ + 1]
  /\ UNCHANGED pageVars

\* stopRecording(): nothing if capturing is not set; else capturing is reset,
\* the recorder mediaRecorder refers to is stopped and the tracks of its
\* stream are stopped
stopContentRecording(c) ==
  IF ~c.capturing
    THEN c
    ELSE [c EXCEPT !.capturing = FALSE,
                   !.mediaRecorder = "inactive",
                   !.stopEvents = @ + 1,
                   !.streams = @ - 1]

\* case "SCHMER_STOP_RECORDING": stopRecording(), then SCHMER_RECORDING_STOPPED
ContentStopRecording ==
  /\ ContentCanPost
  /\ content' = [post(stopContentRecording(content), "SCHMER_RECORDING_STOPPED")
                   EXCEPT !.last = "stop"]
  /\ UNCHANGED pageVars

\* mediaRecorder.onstop: the blob is made of chunks and SCHMER_RECORDING_READY
\* is posted
ContentStopEvent ==
  /\ content.stopEvents > 0
  /\ ContentCanPost
  /\ content' = post([content EXCEPT !.stopEvents = @ - 1], "SCHMER_RECORDING_READY")
  /\ UNCHANGED pageVars

\* The page's listener takes the oldest message posted
ContentPageTakes ==
  /\ content.out # <<>>
  /\ content' = [content EXCEPT !.out = Tail(@)]
  /\ UNCHANGED pageVars

NextContent ==
  \/ ContentPing
  \/ ContentStartRecording
  \/ ContentGranted
  \/ ContentDenied
  \/ ContentDataAvailable
  \/ ContentStopRecording
  \/ ContentStopEvent
  \/ ContentPageTakes

SpecContent == Init /\ [][NextContent]_vars

\* ============================================================== properties
\* The Session is Idle when the persisted recordingState is 'stopped'.
Idle(rs) == rs = "stopped"

\* The session object's fields that describe the session in progress
SessionFields(sess) ==
  <<sess.tabId, sess.projectId, sess.tool, sess.userId, sess.userName, sess.autoPaused,
    sess.toolTabId>>

\* C1: a start command that reaches the Coordinator while the Session is not
\* Idle is rejected: the page's start, whose handler read a recordingState
\* other than 'stopped', ends at the guard with nothing forwarded, and the
\* popup's start is taken up only in 'stopped'.
C1_StartRejectedWhenNotIdle ==
  [][ /\ \A i \in DOMAIN tasks :
           (SchmerStartGuard(i) /\ ~Idle(tasks[i].st)) => tasks' = Done(i)
      /\ PopupStartRecording => Idle(recordingState) ]_vars

\* C2: a start that is rejected leaves the session as it was: the handler of a
\* page's start that arrives in 'recording', which the guard will reject,
\* changes neither the session's fields nor the persisted state.
C2_RejectedStartLeavesSession ==
  [][ (SchmerStartRecording /\ AlreadyRecording(recordingState))
        => /\ SessionFields(schmerSession') = SessionFields(schmerSession)
           /\ recordingState' = recordingState
           /\ recordingStartTime' = recordingStartTime ]_vars

\* The persisted recordingState that stands for a state of the table: a start
\* writes 'recording' at once, a stop writes 'stopped' at once.
Persisted(s) ==
  CASE s \in {"Idle", "Stopping"} -> "stopped"
    [] s \in {"Starting", "Recording"} -> "recording"
    [] s = "Paused" -> "paused"

\* C3: after every sequence of commands and surface events, once the handlers
\* have run to their end, the persisted state is the one of the state the
\* transition table of spec 4.2 reaches on the same sequence.
C3_StateFollowsTable == Quiet => recordingState = Persisted(hist.table)

\* a step in which the handler of an explicit pause writes the state
PauseWrites ==
  \/ PauseRecording /\ offscreenPort # 0
  \/ \E i \in DOMAIN tasks : PauseConnected(i) /\ tasks[i].pc = "pause_wait"

\* a step in which the handler of an explicit resume writes the state
ResumeWrites ==
  \/ ResumeRecording /\ offscreenPort # 0
  \/ \E i \in DOMAIN tasks : ResumeConnected(i) /\ tasks[i].pc = "resume_wait"

\* a step in which the handler of an explicit stop writes the state
StopWrites ==
  \/ StopRecording /\ offscreenPort # 0
  \/ \E i \in DOMAIN tasks : StopConnected(i) /\ tasks[i].pc = "stop_wait"

\* C4: a pause, resume or stop in a state its transition does not start from
\* leaves the state as it is: pause in 'stopped' or 'paused', resume in
\* 'stopped' or 'recording', stop in 'stopped'.
C4_WrongStateCommandIsNoOp ==
  [][ /\ (PauseWrites /\ recordingState \in {"stopped", "paused"})
            => recordingState' = recordingState
      /\ (ResumeWrites /\ recordingState \in {"stopped", "recording"})
            => recordingState' = recordingState
      /\ (StopWrites /\ recordingState = "stopped")
            => recordingState' = recordingState ]_vars

\* the handler of task i goes on into handlePauseRecording / handleResumeRecording
PauseIssued(i) ==
  Len(tasks') = Len(tasks) /\ tasks'[i].pc \in {"vis_pause_post", "vis_pause_wait"}
ResumeIssued(i) ==
  Len(tasks') = Len(tasks) /\ tasks'[i].pc \in {"vis_resume_post", "vis_resume_wait"}

\* C5: auto-pause and auto-resume mirror each other.  The handler of a
\* visibility-true signal that read 'recording' pauses, and sets autoPaused
\* when the pause went out; the handler of a visibility-false signal that read
\* 'paused' with autoPaused set resumes, and clears autoPaused when the resume
\* went out.
C5_AutoPauseResumeSymmetry ==
  [][ \A i \in DOMAIN tasks :
        /\ (VisibilityDecide(i) /\ tasks[i].visible /\ tasks[i].st = "recording")
              => PauseIssued(i)
        /\ (VisibilityPausePost(i) /\ PortAlive(tasks[i].port))
              => schmerSession'.autoPaused
        /\ (VisibilityDecide(i) /\ ~tasks[i].visible /\ tasks[i].st = "paused"
              /\ schmerSession.autoPaused)
              => ResumeIssued(i)
        /\ (VisibilityResumePost(i) /\ PortAlive(tasks[i].port))
              => ~schmerSession'.autoPaused ]_vars

\* C6: a session paused by an explicit pause command is not resumed by a
\* visibility-false signal, whatever happened to the session before.
C6_ExplicitPauseNotAutoResumed ==
  [][ \A i \in DOMAIN tasks :
        (VisibilityDecide(i) /\ ~tasks[i].visible
           /\ recordingState = "paused" /\ hist.pausedBy = "explicit")
          => (recordingState' = "paused" /\ ~ResumeIssued(i)) ]_vars

\* C7: whenever the session of a page is recording, however it came to be, a
\* visibility-true signal makes the persisted state 'paused' (or, with no
\* port, sets out to connect for the pause).
C7_VisibleWhileRecordingPauses ==
  [][ \A i \in DOMAIN tasks :
        (VisibilityDecide(i) /\ tasks[i].visible
           /\ tasks[i].st = "recording" /\ recordingState = "recording")
          => (recordingState' = "paused" \/ PauseIssued(i)) ]_vars

\* C8: with no handler in flight, autoPaused is set exactly when the state is
\* 'paused' and it was the visibility signal that paused.
C8_AutoPausedIffPausedByVisibility ==
  Quiet => (schmerSession.autoPaused
              <=> (recordingState = "paused" /\ hist.pausedBy = "visibility"))

\* the session's tool tab was closed while the session was recording or paused
BoundTabClosed == hist.closedIn \in {"recording", "paused"}

\* C9: when the tab opened for the session is closed while the session is
\* recording or paused, STOP_RECORDING is posted to the surface for that
\* session once: not zero times, and not a second time by a later stop.
C9_TabCloseStopsExactlyOnce == (BoundTabClosed /\ Quiet) => hist.stops = 1

\* the handler of RECORDING_STOPPED, for a session a page began, is at its end
Delivered(i) == tasks[i].pc = "rs_reset" /\ hist.initiator # NoTab

\* C10: after start, segments and stop for a session a page began, the first
\* delivery is made to the page whose start began the session, the artifact
\* has as many bytes as the segments together, and the state is 'stopped'.
C10_EndToEnd ==
  \A i \in DOMAIN tasks :
    Delivered(i) => /\ tasks[i].log # <<>>
                    /\ tasks[i].log[1].to = hist.initiator
                    /\ tasks[i].log[1].size = hist.bytes
                    /\ recordingState = "stopped"

\* the handler of RECORDING_STOPPED has made its deliveries
Attempted(i) == tasks[i].pc \in {"rs_close", "rs_reset"}

\* the relay to the session's page was tried and failed
RelayFailed(i) ==
  Attempted(i) /\ tasks[i].log # <<>> /\ tasks[i].log[1].tier = "relay" /\ ~tasks[i].log[1].ok

\* C11: when the relay to the initiator's tab fails, the upload is tried next,
\* and when the upload fails too, the local save.
C11_RelayFailureFallsThrough ==
  \A i \in DOMAIN tasks :
    RelayFailed(i) => /\ Len(tasks[i].log) >= 2
                      /\ tasks[i].log[2].tier = "upload"
                      /\ (~tasks[i].log[2].ok => /\ Len(tasks[i].log) >= 3
                                                  /\ tasks[i].log[3].tier = "download")

\* the delivery targets that took the artifact
Successes(log) == {k \in DOMAIN log : log[k].ok}

\* the last tier, the local save, was tried
LastTierTried(log) == \E k \in DOMAIN log : log[k].tier = "download"

\* no initiator is set: the session is not active, or has no page's tab
NoInitiator(sess) == ~(sess.active /\ sess.tabId # NoTab)

\* what the handler of RECORDING_STOPPED has tried is the upload, and the
\* local save after it exactly when the upload did not succeed
UploadThenSave(log) ==
  /\ log # <<>>
  /\ log[1].tier = "upload"
  /\ (log[1].ok <=> Len(log) = 1)
  /\ (~log[1].ok => Len(log) = 2 /\ log[2].tier = "download")

C13_DeliveredExactlyOnce ==
  \A i \in DOMAIN tasks :
    Attempted(i) => /\ Cardinality(Successes(tasks[i].log)) <= 1
                    /\ (Successes(tasks[i].log) = {} => LastTierTried(tasks[i].log))

\* C14: the artifact assembled at stop has as many bytes as the non-empty
\* segments the stopped recorder gave since it was started, together: none
\* is dropped, none of another recorder is in it.
C14_ArtifactIsSessionSegments ==
  [][ (RecorderStopped /\ port)
        => offToSw'[Len(offToSw')].size = hist'.bytes ]_vars

\* the recorder's variables, the messages it sent apart
RecorderState(r) == [r EXCEPT !.sent = <<>>]

\* C15: a stop that finds no encoder reports a status, not an error, and
\* leaves the state of the surface as it was.
C15_StopWithNoEncoder ==
  [][ (RecorderStop /\ recorder.mediaRecorder = "null")
        => /\ Len(recorder'.sent) = Len(recorder.sent) + 1
           /\ recorder'.sent[Len(recorder'.sent)].type = "offscreen-state"
           /\ RecorderState(recorder') = RecorderState(recorder) ]_vars

\* the messages r2 sent that r1 had not
NewlySent(r1, r2) == SubSeq(r2.sent, Len(r1.sent) + 1, Len(r2.sent))

\* C16: when the microphone asked for cannot be had, the start goes on to
\* recording without it: it is not aborted, and no error that ends the
\* attempt is reported.
C16_MicFailureStillRecords ==
  [][ RecorderMicDenied
        => /\ recorder'.mediaRecorder = "recording"
           /\ \A k \in DOMAIN NewlySent(recorder, recorder') :
                 /\ NewlySent(recorder, recorder')[k].type # "offscreen-error"
                 /\ NewlySent(recorder, recorder')[k].status # "idle" ]_vars

\* C17: when the stop's last step, the saving of the file, has ended, well or
\* not, no device handle acquired for the session is live any more.
C17_StopReleasesHandles ==
  [][ RecorderDownloaded => recorder'.handles = {} ]_vars

\* startRecording comes to its end
RecorderStartEnds ==
  /\ RecorderDisplayGranted \/ RecorderDisplayDenied \/ RecorderMicGranted
       \/ RecorderMicDenied
  /\ recorder'.start = "idle"

\* C18: a start that ends with no recorder recording, whatever made it fail,
\* leaves no device handle live.
C18_FailedStartReleasesHandles ==
  [][ (RecorderStartEnds /\ recorder'.mediaRecorder # "recording")
        => recorder'.handles = {} ]_vars

\* what is on the port to the service worker once a stop command was handled
StopReport ==
  IF mediaRecorder = "null"
    THEN Reported(PortMsg("STATUS_UPDATE", "No active recording", NoCfg, 0))
    ELSE offToSw

\* C19: the end of a captured track is handled as a stop is, and besides the
\* surface reports a reason that tells it from a stop command: what it puts
\* on the port is not what a stop command would have put there.
C19_SourceEndedIsTold ==
  [][ TrackEnded => offToSw' # StopReport ]_vars

\* C20: when the surface reports that the acquisition for a start failed, the
\* Session is Idle again as a whole: the persisted state is 'stopped' and
\* the session record of the page is reset.
C20_AcquisitionFailureResetsSession ==
  [][ OffscreenError
        => /\ Idle(recordingState')
           /\ schmerSession' = SessionReset(schmerSession) ]_vars

\* the session record holds nothing of a session
SessionCleared(sess) ==
  /\ ~sess.active /\ ~sess.autoPaused
  /\ sess.projectId = Null /\ sess.tool = Null
  /\ sess.toolTabId = NoTab /\ sess.expectedToolUrl = Null

\* C21: the handler of the artifact-ready report, whatever came of the
\* delivery, closes the offscreen document and then resets the session
\* record: not active, not auto-paused, project, tool and tool tab cleared.
C21_HandlerEndsResetAndTornDown ==
  [][ \A i \in DOMAIN tasks :
        /\ RecordingStoppedClose(i) => (~offscreenDoc' /\ offscreenPort' = 0)
        /\ RecordingStoppedReset(i) => SessionCleared(schmerSession') ]_vars

\* a page's session was delivered, the handler is at its end: the record is
\* reset and the document closed
C21_Witness ==
  /\ Quiet
  /\ schmerSession.tabId # NoTab
  /\ SessionCleared(schmerSession)
  /\ ~offscreenDoc
  /\ docGen > 0

\* C22: the page is told SCHMER_RECORDING_STARTED only for a start that the
\* surface reported as begun; when the only start attempt made was answered by
\* the surface with an error, no page was told that recording started.
C22_NoStartedForFailedAttempt ==
  (hist.track = "pages" /\ hist.attempts = 1 /\ hist.failed /\ ~hist.began)
    => hist.told = NoTab

\* C23: commands are processed in the order sent: when no handler is running
\* and the last command received was a stop, the last of START_RECORDING and
\* STOP_RECORDING that went to the surface is not START_RECORDING.
C23_StopAfterStartReachesSurfaceLast ==
  (hist.track = "order" /\ Quiet /\ hist.last = "stop")
    => hist.lastPosted # "START_RECORDING"

\* C24: an auto-pause or auto-resume that races with a stop does not take
\* effect after it: once a stop, the last command received, has written
\* 'stopped', no step of the SCHMER_VISIBILITY handler writes 'recording' or
\* 'paused' over it.
C24_VisibilityNeverOverwritesStopped ==
  [][ \A i \in DOMAIN tasks :
        (VisibilityDecide(i) /\ hist.last = "stop" /\ recordingState = "stopped")
          => recordingState' = "stopped" ]_vars

\* C25: the artifact of a session is relayed only to the page that initiated
\* it: a SCHMER_RECORDING_READY that a page received was addressed to the page
\* whose start began the session.
C25_ReadyOnlyToInitiator ==
  \A i \in DOMAIN tasks :
    \A k \in DOMAIN tasks[i].log :
      (hist.track = "initiator" /\ tasks[i].log[k].tier = "relay" /\ tasks[i].log[k].ok)
        => tasks[i].log[k].to = hist.initiator

\* C26: a handshake probe is answered with a positive acknowledgement that
\* carries the version, whatever the state, and answering it changes nothing
\* of the Coordinator, the surface, the channels or the tabs.
C26_HandshakeAnsweredInEveryState ==
  [][ SchmerHandshake
        => /\ hist'.pong = [detected |-> TRUE, version |-> ManifestVersion]
           /\ UNCHANGED <<swVars, surfVars, chanVars, envVars>> ]_vars

C26_Witness ==
  /\ hist.pong.detected
  /\ hist.probedIn = {"stopped", "recording", "paused"}
  /\ hist.probedBusy

\* C27: an artifact that no storage took is saved by a browser download, and
\* an artifact that was uploaded is not downloaded.
C27_FailedUploadIsDownloaded ==
  dashboard.handled > 0
    => /\ ~dashboard.outcome.uploaded => dashboard.outcome.downloaded
       /\ dashboard.outcome.uploaded => ~dashboard.outcome.downloaded

\* C28: once the commands that called connectToOffscreen together are all
\* forwarded, there is at most one document and at most one open port, and
\* every command went out on that port.
C28_OneDocumentOnePort ==
  (\A c \in Callers : callers.pc[c] = "done")
    => /\ callers.documents <= 1
       /\ Cardinality(callers.opened) <= 1
       /\ \A f \in callers.forwarded : f[2] = callers.offscreenPort

\* C29: the encoder is created with the first type of the preference list
\* that the host supports; when the host supports none of them the start
\* fails with the encoder-unsupported error and no encoder is active.
C29_FirstSupportedCodecOrFailure ==
  setup.pc = "done"
    => IF setup.host.supported # {}
         THEN /\ setup.encoder.active
              /\ setup.encoder.mimeType = chooseMimeType(setup.host.supported)
         ELSE /\ ~setup.encoder.active
              /\ setup.encoder.error = "unsupported"

\* C30: the stream handed to the encoder has at most one audio track; none
\* when neither the display stream nor the microphone gives audio; and with
\* both, exactly one, the destination's, to which both are connected.
C30_AtMostOneAudioTrack ==
  setup.pc # "idle"
    => /\ setup.stream.audio <= 1
       /\ (setup.in.displayAudioTracks = 0 /\ ~setup.in.mic) => setup.stream.audio = 0
       /\ (setup.in.displayAudioTracks > 0 /\ setup.in.mic)
            => /\ setup.stream.audio = 1
               /\ setup.stream.mixed = {"display", "mic"}

C30_Witness ==
  /\ setup.pc = "done"
  /\ setup.impl = "offscreen.js"
  /\ setup.in.displayAudioTracks = MaxAudioTracks
  /\ setup.in.mic
  /\ setup.stream.audio = 1

\* C31: pause has an effect only on an encoder that records and resume only on
\* a paused one: a pause taken by either surface turns "recording" into
\* "paused", a resume "paused" into "recording", and in every other state of
\* the encoder (none, inactive, already paused, already recording) the call
\* leaves the whole surface as it was and reports no error
C31_Took(cmd) == hist'.taken # hist.taken /\ hist'.taken.cmd = cmd

C31_Effect(cmd, from, to) ==
  /\ hist.track = "offscreen.js" /\ C31_Took(cmd) =>
       /\ mediaRecorder' = IF mediaRecorder = from THEN to ELSE mediaRecorder
       /\ UNCHANGED <<offscreenDoc, docGen, port, recordedChunks, currentStream,
                      acquiring, stopping, orphans, offToSw>>
  /\ hist.track = "part_002" /\ C31_Took(cmd) =>
       IF recorder.mediaRecorder = from
         THEN /\ recorder'.mediaRecorder = to
              /\ recorder'.sent = Append(recorder.sent, [type |-> "offscreen-state",
                                                         status |-> to, error |-> Null])
              /\ \A f \in DOMAIN recorder \ {"mediaRecorder", "sent", "elapsedMs",
                                                "pausedAt", "runningStart"} :
                    recorder'[f] = recorder[f]
         ELSE recorder' = recorder

C31_PauseAndResumeGuarded ==
  [][C31_Effect("pause", "recording", "paused")
       /\ C31_Effect("resume", "paused", "recording")]_vars

\* a pause reached the port-based surface before it had an encoder
C31_Witness ==
  /\ hist.track = "offscreen.js"
  /\ hist.taken.cmd = "pause"
  /\ hist.taken.before = "null"

\* C32: in the recorder that tracks elapsed time, the elapsedMs sent when an
\* encoder stops is the time that encoder was recording, paused intervals left
\* out; while the encoder is paused elapsedMs is the time recorded so far; and
\* elapsedMs is 0 when a session starts (no interval has run yet)
C32_ElapsedIsRecordedTime ==
  /\ recorder.report.sent => recorder.report.elapsedMs = recorder.report.recorded
  /\ recorder.mediaRecorder = "paused" => recorder.elapsedMs = recorder.recorded
  /\ recorder.mediaRecorder \in {"recording", "paused"} /\ recorder.recorded = 0
       => recorder.elapsedMs = 0

\* C33: the artifact of a popup-initiated recording is never relayed to a page:
\* when the popup's START_RECORDING was posted after every earlier session of a
\* page had ended (by its artifact's handler or by a failed start) and no page
\* has sent a start since, the handler of the artifact does not take the
\* relay branch, and the session record it reads holds no project or tool
C33_PopupArtifactNotRelayed ==
  \A i \in DOMAIN tasks :
    (hist.track = "origin" /\ hist.origin = "popup" /\ tasks[i].pc \in {"rs_relay", "rs_upload"})
      => /\ tasks[i].pc = "rs_upload"
         /\ schmerSession.projectId = Null /\ schmerSession.tool = Null

\* C34: whenever nothing is in flight (no handler suspended, no message on the
\* port in either direction, no acquisition or stop under way in the surface),
\* the persisted recordingState agrees with the surface: 'recording' only with
\* an encoder that records, 'paused' only with a paused one, and 'stopped' if
\* and only if there is no encoder
C34_Quiescent ==
  /\ Quiet
  /\ swToOff = <<>> /\ offToSw = <<>>
  /\ acquiring = <<>> /\ ~stopping

C34_StateAgreesWithSurface ==
  C34_Quiescent =>
    /\ recordingState = "recording" => mediaRecorder = "recording"
    /\ recordingState = "paused" => mediaRecorder = "paused"
    /\ recordingState = "stopped" <=> mediaRecorder = "null"

\* C35: when the stop event of an encoder comes, whatever number of stops
\* reached the surface while it was stopping, the surface reports one
\* RECORDING_STOPPED with the artifact of the buffered segments, resets the
\* encoder to none, and no call of stopRecording is left waiting
C35_EveryStopCallEnds ==
  [][ RecorderStopped
        => /\ mediaRecorder' = "null"
           /\ port => /\ Len(offToSw') = Len(offToSw) + 1
                      /\ offToSw'[Len(offToSw')].type = "RECORDING_STOPPED"
           /\ hist'.waiting = 0 ]_vars

\* C36: in the port-based surface the buffer holds the segments of the
\* encoder in use: a START_RECORDING taken while an encoder is active leaves
\* the segments buffered for the running recording in place
C36_StartWhileActiveKeepsBuffer ==
  [][ (SurfaceStartRecording /\ mediaRecorder \in {"recording", "paused"})
        => recordedChunks' = recordedChunks ]_vars

\* C37: in the recorder that restarts on demand, the file saved for a
\* recording holds all the segments its encoder gave and nothing else: the
\* chunks its stop handler finds are those buffered when the encoder was
\* stopped, followed by its last segment
C37_SavedFileIsWhole ==
  recorder.report.sent => recorder.report.whole

\* C38: the closure of a tab stops the recording only if the session that is
\* active bound that tab as its tool tab: the start that began the session
\* named a tool URL
C38_ClosureStopsOnlyOwnToolTab ==
  [][ \A closedTabId \in openTabs :
        (TabRemoved(closedTabId) /\ ToolTabClosed(schmerSession, closedTabId))
          => hist.declared ]_vars

\* C39: the content script has at most one capture stream and one recorder
\* live at any time, and when the last command handled was a stop and no
\* start waits for the prompt, no recorder is recording
C39_OneCaptureNoneAfterStop ==
  /\ content.streams <= 1
  /\ Recording(content) <= 1
  /\ (content.last = "stop" /\ content.pending = 0) => Recording(content) = 0

\* the step posts a message of this type to the page
C40_Posts(type) ==
  /\ Len(content'.out) > Len(content.out)
  /\ content'.out[Len(content'.out)] = type

\* C40: the content script posts SCHMER_RECORDING_STARTED only in a step in
\* which a capture began, SCHMER_RECORDING_STOPPED only in a step in which a
\* recorder that was recording was stopped, and SCHMER_RECORDING_READY once
\* for each such stop
C40_NotificationsMatch ==
  [][ /\ C40_Posts("SCHMER_RECORDING_STARTED") => content'.streams > content.streams
      /\ C40_Posts("SCHMER_RECORDING_STOPPED") =>
           (content.mediaRecorder = "recording" /\ content'.mediaRecorder = "inactive")
      /\ C40_Posts("SCHMER_RECORDING_READY") =>
           (content.stopEvents > 0 /\ content'.stopEvents = content.stopEvents - 1) ]_vars

====
